---------------------------- MODULE Spec2Model ----------------------------
(***************************************************************************)
(* Sales brochure generator: the provider clients' retry-wrapped           *)
(* completion calls (src/src/models) and the orchestrator's request        *)
(* pipeline (src/src/generators/brochure_generator.py) with the scraper    *)
(* it drives (src/src/scrapers/website_scraper.py).                        *)
(*                                                                         *)
(* Three specifications share the module.  ProviderSpec runs one provider  *)
(* operation (extract_links, generate_brochure, test_connection, the       *)
(* streaming generator) on an OpenAIModel or a ClaudeModel, or the         *)
(* construction of a BrochureGenerator on it.  Spec runs requests on one   *)
(* BrochureGenerator.  FunctionSpec calls the text and link utilities on   *)
(* their own.  Logging calls are left out: they change no state the        *)
(* properties read.                                                        *)
(***************************************************************************)
EXTENDS Integers, Sequences, FiniteSets, TLC

VARIABLES
    \* ---- provider client (OpenAIModel / ClaudeModel) ----
    provider,      \* which class the client is an instance of
    max_retries,   \* self.max_retries
    op,            \* the public operation being served, "none" before any
    ppc,           \* position inside the operation
    attempt,       \* the loop variable of the retry loop (0-based)
    calls,         \* transport calls made (client....create)
    trace,         \* the calls and sleeps of the completion call, in order
    clock,         \* seconds slept by time.sleep in the completion call
    failures,      \* the exceptions the transport raised, in order
    response,      \* what the transport returned, NoResponse before
    cc,            \* the completion call: "none", "running", "returned", "raised"
    ccExc,         \* the exception the completion call raised to its caller
    opResult,      \* how the operation ended: [kind, value]
    opArgs,        \* the arguments the operation was called with
    messages,      \* what the operation passed to the completion call
    construction,  \* BrochureGenerator(...) on this client: how far, how ended
    \* ---- the provider's streaming operation ----
    sgen,          \* the generator stream_brochure_generation returned
    stream,        \* the chunks the transport's stream has still to deliver
    chunksRead,    \* chunks read from the transport's stream so far
    pending,       \* text extracted from a chunk and not yet handed over
    handed,        \* the fragments handed to the caller, in order
    \* ---- orchestrator (BrochureGenerator) and its scraper ----
    requestNo,     \* requests issued on this BrochureGenerator so far
    mode,          \* "sync" (generate_brochure), "stream", "none" when idle
    company_name,  \* argument, a sequence of characters
    website_url,   \* argument, a sequence of characters
    options,       \* the caller's GenerationOptions object, or NoOptions
    site,          \* the outbound links of the page behind website_url
    pc,            \* position inside the request handler
    gen,           \* the generator object of the streaming path
    stages,        \* the pipeline stages started by this request, in order
    err,           \* the exception raised inside the handler's try block
    errAt,         \* Len(stages) when err was raised
    scraper_max_retries, \* WebsiteScraper.max_retries
    fetchAttempt,  \* loop variable of _make_request_with_retry
    fetches,       \* session.get calls made by this request
    http_response, \* what _make_request_with_retry returned
    main_content,  \* what scrape_website returned for the main page
    providerCalls, \* provider operations called by this request
    secondaryFetched, \* secondary pages fetched by this request
    yielded,       \* what the generator has yielded, in order
    saved,         \* a brochure file was written by this request
    result,        \* the GenerationResult produced, NoGenerationResult if none
    outcome,       \* how the request ended: "none", "returned", "raised"
    closes,        \* scraper.close() calls made by this request
    session_closed, \* the scraper's session has been closed
    \* ---- the text and link utilities, called on their own ----
    fn,            \* the utility function being called, "none" when idle
    args,          \* its arguments
    ret            \* what it returned

svars == <<sgen, stream, chunksRead, pending, handed>>

mvars == <<opArgs, messages>>

cvars == <<construction>>

pvars == <<provider, max_retries, op, ppc, attempt, calls, trace, clock,
           failures, response, cc, ccExc, opResult, mvars, cvars, svars>>

ovars == <<requestNo, mode, company_name, website_url, options, site, pc, gen,
           stages, err, errAt, scraper_max_retries, fetchAttempt, fetches,
           http_response, main_content, providerCalls, secondaryFetched,
           yielded, saved, result, outcome, closes, session_closed>>

fvars == <<fn, args, ret>>

vars == <<pvars, ovars, fvars>>

-----------------------------------------------------------------------------
(* Bounds and program constants *)

\* Largest value of MAX_RETRIES explored (settings.py reads it from the
\* environment, default 3).
MaxRetriesBound == 3

Providers == {"OpenAI", "Claude"}

Operations == {"extract_links", "generate_brochure", "test_connection"}

\* What an SDK call can raise: a connection/timeout failure, a rejected
\* credential (401), a rejected request (400).  The retry loops do not tell
\* them apart.
TransportErrorKinds == {"connectivity", "authentication", "bad_request"}

\* The replies a transport can return: the expected nesting is present or
\* not, and the text it carries, a sequence of characters: a JSON object,
\* "ok", " Ok\n", "No", "o k".
JsonTexts == { <<"{", "}">> }

ResponseTexts ==
    JsonTexts \cup
    { <<"o", "k">>, <<" ", "O", "k", "\n">>, <<"N", "o">>,
      <<"o", " ", "k">> }

NoResponse == [id |-> 0, wellFormed |-> FALSE, text |-> <<>>]

NoExc == [kind |-> "none", at |-> 0]

MaxRetriesExceeded == [kind |-> "max_retries_exceeded", at |-> 0]

NoResult == [kind |-> "none", value |-> "none"]

-----------------------------------------------------------------------------
(* The retry loops *)

BaseBackoffDoubled(a) == 2 ^ (a + 1)

\* time.sleep(2 ** attempt) in BaseAIModel._retry_with_backoff
BaseBackoff(a) == 2 ^ a

OpenAIBackoffDoubled(a) == 2 ^ (a + 1)

\* time.sleep(2 ** attempt) in OpenAIModel._create_completion_with_retry
OpenAIBackoff(a) == 2 ^ a

BaseReraisesOffByOne(a, e) == a = max_retries

BaseReraisesNonConnectivity(a, e) ==
    a = max_retries - 1 \/ e.kind # "connectivity"

\* except Exception as e: ... if attempt == self.max_retries - 1: raise
\* (BaseAIModel._retry_with_backoff).  The clause catches every Exception
\* and does not look at e.
BaseReraises(a, e) == a = max_retries - 1

OpenAIReraisesOffByOne(a, e) == a = max_retries

OpenAIReraisesNonConnectivity(a, e) ==
    a = max_retries - 1 \/ e.kind # "connectivity"

\* except Exception as e: ... if attempt == self.max_retries - 1: raise
\* (OpenAIModel._create_completion_with_retry)
OpenAIReraises(a, e) == a = max_retries - 1

CallEvent(n) == [ev |-> "call", n |-> n]

SleepEvent(s) == [ev |-> "sleep", n |-> s]

\* One pass through the body of the loop: the transport is called; it
\* returns a response, which the loop returns at once, or raises, and the
\* except clause either re-raises (last attempt) or goes to sleep.
AttemptBody(p) ==
    /\ ppc = "attempt"
    /\ attempt < max_retries
    /\ calls' = calls + 1
    /\ trace' = Append(trace, CallEvent(calls + 1))
    /\ \/ \E w \in BOOLEAN, t \in ResponseTexts :
             /\ response' = [id |-> calls + 1, wellFormed |-> w, text |-> t]
             /\ cc' = "returned"
             /\ ppc' = "after_completion"
             /\ UNCHANGED <<failures, ccExc>>
       \/ \E k \in TransportErrorKinds :
             LET e == [kind |-> k, at |-> calls + 1] IN
             /\ failures' = Append(failures, e)
             /\ IF (IF p = "Claude" THEN BaseReraises(attempt, e)
                                    ELSE OpenAIReraises(attempt, e))
                   THEN /\ cc' = "raised"
                        /\ ccExc' = e
                        /\ ppc' = "after_completion"
                   ELSE /\ ppc' = "sleep"
                        /\ UNCHANGED <<cc, ccExc>>
             /\ UNCHANGED response
    /\ UNCHANGED <<provider, max_retries, op, attempt, clock, opResult,
                   mvars>>

\* time.sleep(...) at the end of the except clause, then the next iteration.
SleepBody(secs) ==
    /\ ppc = "sleep"
    /\ clock' = clock + secs
    /\ trace' = Append(trace, SleepEvent(secs))
    /\ attempt' = attempt + 1
    /\ ppc' = "attempt"
    /\ UNCHANGED <<provider, max_retries, op, calls, failures, response, cc,
                   ccExc, opResult, mvars>>

\* The statement after the loop: raise Exception("Max retries exceeded"),
\* reached when range(self.max_retries) is exhausted without a return or a
\* raise; the last iteration always does one of the two, so only an empty
\* range gets here.
AfterLoopBody ==
    /\ ppc = "attempt"
    /\ attempt >= max_retries
    /\ cc' = "raised"
    /\ ccExc' = MaxRetriesExceeded
    /\ ppc' = "after_completion"
    /\ UNCHANGED <<provider, max_retries, op, attempt, calls, trace, clock,
                   failures, response, opResult, mvars>>

\* BaseAIModel._retry_with_backoff(make_request), as ClaudeModel calls it.
retry_with_backoff_attempt ==
    /\ provider = "Claude"
    /\ AttemptBody("Claude")

retry_with_backoff_sleep ==
    /\ provider = "Claude"
    /\ SleepBody(BaseBackoff(attempt))

retry_with_backoff_after_loop ==
    /\ provider = "Claude"
    /\ AfterLoopBody

\* OpenAIModel._create_completion_with_retry: its own copy of the loop.
openai_create_completion_attempt ==
    /\ provider = "OpenAI"
    /\ AttemptBody("OpenAI")

openai_create_completion_sleep ==
    /\ provider = "OpenAI"
    /\ SleepBody(OpenAIBackoff(attempt))

openai_create_completion_after_loop ==
    /\ provider = "OpenAI"
    /\ AfterLoopBody

-----------------------------------------------------------------------------
(* The operations around the completion call *)

NoArgs == [given |-> FALSE]

NoMessages == [system |-> "none", list |-> <<>>]

\* A message content that is a fixed text of prompts.py, or of the code.
FixedText(name) == [fixed |-> name]

\* prompts.BROCHURE_GENERATION_EXAMPLES: one user message and the
\* assistant's answer to it.
BROCHURE_GENERATION_EXAMPLES ==
    << [role |-> "user", content |-> FixedText("TechCorp pages")],
       [role |-> "assistant", content |-> FixedText("TechCorp brochure")] >>

\* prompts.LINK_EXTRACTION_EXAMPLES
LINK_EXTRACTION_EXAMPLES ==
    << [role |-> "user", content |-> FixedText("example-company links")],
       [role |-> "assistant", content |-> FixedText("example-company selection")] >>

\* prompts.get_language_specific_prompt(language_code)
get_language_specific_prompt(language_code) ==
    IF language_code = "en" THEN "" ELSE "IMPORTANT: language instruction"

\* prompts.get_brochure_generation_prompt: the company's name, the fixed
\* instruction, the content and the language suffix, in that order.
get_brochure_generation_prompt(name, website_content, language_code) ==
    [company_name |-> name, website_content |-> website_content,
     suffix |-> get_language_specific_prompt(language_code)]

\* The arguments of generate_brochure and stream_brochure_generation.
BrochureArgs ==
    { [given |-> TRUE, company_name |-> "Acme", content |-> "Landing page",
       language |-> l, use_few_shot |-> f] :
         l \in {"en", "ua"}, f \in BOOLEAN }

prepare_messages_examples_last(user_prompt, examples, few) ==
    <<[role |-> "user", content |-> user_prompt]>>
       \o (IF few THEN examples ELSE <<>>)

\* BaseAIModel._prepare_messages_with_examples
prepare_messages_with_examples(user_prompt, examples, few) ==
    (IF few
        THEN SelectSeq(examples, LAMBDA example : example.role # "system")
        ELSE <<>>)
       \o <<[role |-> "user", content |-> user_prompt]>>

\* OpenAIModel: messages = [system]; messages.extend(examples) if
\* use_few_shot; messages.append(user)
openai_messages(system_prompt, user_prompt, examples, few) ==
    <<[role |-> "system", content |-> FixedText(system_prompt)]>>
       \o (IF few THEN examples ELSE <<>>)
       \o <<[role |-> "user", content |-> user_prompt]>>

\* What generate_brochure and stream_brochure_generation pass to
\* _create_completion_with_retry: on Claude the system prompt is a keyword
\* argument of its own, on OpenAI it is the first message.
BrochureMessages(p, a) ==
    LET user_prompt == get_brochure_generation_prompt(a.company_name,
                          a.content, a.language)
    IN IF p = "Claude"
          THEN [system |-> "BROCHURE_GENERATION_SYSTEM_PROMPT",
                list |-> prepare_messages_with_examples(user_prompt,
                            BROCHURE_GENERATION_EXAMPLES, a.use_few_shot)]
          ELSE [system |-> "none",
                list |-> openai_messages("BROCHURE_GENERATION_SYSTEM_PROMPT",
                            user_prompt, BROCHURE_GENERATION_EXAMPLES,
                            a.use_few_shot)]

\* What extract_links passes (use_few_shot is left at its default, True).
LinkMessages(p) ==
    IF p = "Claude"
       THEN [system |-> "LINK_EXTRACTION_SYSTEM_PROMPT",
             list |-> prepare_messages_with_examples(FixedText("link prompt"),
                         LINK_EXTRACTION_EXAMPLES, TRUE)]
       ELSE [system |-> "none",
             list |-> openai_messages("LINK_EXTRACTION_SYSTEM_PROMPT",
                         FixedText("link prompt"),
                         LINK_EXTRACTION_EXAMPLES, TRUE)]

\* What test_connection passes: one user message, no system prompt.
TestMessages ==
    [system |-> "none",
     list |-> <<[role |-> "user", content |-> FixedText("connection test")]>>]

\* The operation is entered: the messages are built and
\* _create_completion_with_retry is called (attempt = 0, nothing slept).
BeginOperation ==
    /\ ppc = "idle"
    /\ \E o \in Operations :
          /\ op' = o
          /\ IF o = "generate_brochure"
                THEN \E a \in BrochureArgs :
                        /\ opArgs' = a
                        /\ messages' = BrochureMessages(provider, a)
                ELSE /\ opArgs' = NoArgs
                     /\ messages' = IF o = "extract_links"
                                       THEN LinkMessages(provider)
                                       ELSE TestMessages
    /\ ppc' = "attempt"
    /\ cc' = "running"
    /\ UNCHANGED <<provider, max_retries, attempt, calls, trace, clock,
                   failures, response, ccExc, opResult>>

\* Navigating the response to its text: response.choices[0].message.content
\* (OpenAI) or response.content[0].text (Claude) raises when a segment of
\* the path is absent.
ExtractTextRaises(r) == ~r.wellFormed

\* Characters str.strip() removes.
Whitespace == {" ", "\t", "\n"}

SetMin(S) == CHOOSE x \in S : \A y \in S : x <= y

SetMax(S) == CHOOSE x \in S : \A y \in S : x >= y

\* str.strip(): leading and trailing whitespace removed.
Strip(t) ==
    LET keep == {i \in 1..Len(t) : t[i] \notin Whitespace} IN
    IF keep = {} THEN <<>> ELSE SubSeq(t, SetMin(keep), SetMax(keep))

JsonLoadsNeverRaises(r) == FALSE

\* json.loads(result) raises JSONDecodeError unless the text is JSON.
JsonLoadsRaises(r) == r.text \notin JsonTexts

\* The ASCII letters, capital and small, in alphabetical order.
UpperLetters ==
    <<"A", "B", "C", "D", "E", "F", "G", "H", "I", "J", "K", "L", "M",
      "N", "O", "P", "Q", "R", "S", "T", "U", "V", "W", "X", "Y", "Z">>

LowerLetters ==
    <<"a", "b", "c", "d", "e", "f", "g", "h", "i", "j", "k", "l", "m",
      "n", "o", "p", "q", "r", "s", "t", "u", "v", "w", "x", "y", "z">>

\* str.upper(), on ASCII text.
Upper(t) ==
    [i \in 1..Len(t) |->
        IF \E k \in DOMAIN LowerLetters : LowerLetters[k] = t[i]
           THEN UpperLetters[CHOOSE k \in DOMAIN LowerLetters :
                                LowerLetters[k] = t[i]]
           ELSE t[i]]

\* sub in t
Contains(t, sub) ==
    \E i \in 1..(Len(t) - Len(sub) + 1) :
       SubSeq(t, i, i + Len(sub) - 1) = sub

ContainsOKCaseSensitive(r) == Contains(Strip(r.text), <<"O", "K">>)

\* result = ....strip(); "OK" in result.upper()
ContainsOK(r) == Contains(Upper(Strip(r.text)), <<"O", "K">>)

\* What follows the completion call inside the operation's try block, and
\* its except clauses: extract_links and generate_brochure log and re-raise,
\* test_connection logs and returns False.
OperationOutcome ==
    IF cc = "raised"
       THEN IF op = "test_connection"
               THEN [kind |-> "returned", value |-> "False"]
               ELSE [kind |-> "raised", value |-> ccExc.kind]
    ELSE IF ExtractTextRaises(response)
       THEN IF op = "test_connection"
               THEN [kind |-> "returned", value |-> "False"]
               ELSE [kind |-> "raised", value |-> "structural"]
    ELSE IF op = "extract_links"
       THEN IF JsonLoadsRaises(response)
               THEN [kind |-> "raised", value |-> "parse"]
               ELSE [kind |-> "returned", value |-> "parsed_result"]
    ELSE IF op = "generate_brochure"
       THEN [kind |-> "returned", value |-> "result"]
    ELSE IF ContainsOK(response)
       THEN [kind |-> "returned", value |-> "True"]
       ELSE [kind |-> "returned", value |-> "False"]

FinishOperation ==
    /\ ppc = "after_completion"
    /\ op \in Operations
    /\ opResult' = OperationOutcome
    /\ ppc' = "done"
    /\ UNCHANGED <<provider, max_retries, op, attempt, calls, trace, clock,
                   failures, response, cc, ccExc, mvars>>

-----------------------------------------------------------------------------
(* Constructing the orchestrator on a provider client *)

NotConstructing == [phase |-> "none"]

\* The attributes __init__ sets on the client: OpenAIModel.__init__ on its
\* own, ClaudeModel.__init__ through BaseAIModel.__init__.
ModelAttributes(p) ==
    IF p = "Claude"
       THEN {"api_key", "model", "provider_name", "max_retries", "client"}
       ELSE {"api_key", "model", "client", "max_retries"}

\* BrochureGenerator.__init__ up to its connection test: the client and the
\* scraper are made and self.ai_model.test_connection() is called.
BrochureGenerator_init ==
    /\ ppc = "idle"
    /\ construction = NotConstructing
    /\ construction' = [phase |-> "testing"]
    /\ op' = "test_connection"
    /\ opArgs' = NoArgs
    /\ messages' = TestMessages
    /\ ppc' = "attempt"
    /\ cc' = "running"
    /\ UNCHANGED <<provider, max_retries, attempt, calls, trace, clock,
                   failures, response, ccExc, opResult>>

\* test_connection has returned: on False,
\* raise ConnectionError(f"Failed to connect to
\* {self.ai_model.provider_name} API"), whose message is evaluated first;
\* on True the constructor returns.
BrochureGenerator_init_after_test ==
    /\ construction = [phase |-> "testing"]
    /\ ppc = "done"
    /\ construction' =
          IF opResult.value = "True"
             THEN [phase |-> "constructed"]
          ELSE IF "provider_name" \in ModelAttributes(provider)
             THEN [phase |-> "raised", exc |-> "ConnectionError",
                   names |-> provider]
          ELSE [phase |-> "raised", exc |-> "AttributeError",
                names |-> "none"]
    /\ UNCHANGED <<provider, max_retries, op, ppc, attempt, calls, trace,
                   clock, failures, response, cc, ccExc, opResult, mvars>>

-----------------------------------------------------------------------------
(* The provider's streaming operation *)

\* Longest transport stream explored, in chunks.
MaxStreamLen == 2

\* A chunk of the transport's stream, as the extraction code sees it: it
\* has a delta or not (OpenAI: a first choice with a delta), the delta has
\* the text attribute or not (OpenAI: content, Claude: text), the attribute
\* is None or a string.
Chunk(d, a, n, t) == [hasDelta |-> d, hasText |-> a, isNull |-> n, text |-> t]

ControlChunk == Chunk(FALSE, FALSE, FALSE, <<>>)

NoTextChunk == Chunk(TRUE, FALSE, FALSE, <<>>)

NullTextChunk == Chunk(TRUE, TRUE, TRUE, <<>>)

EmptyTextChunk == Chunk(TRUE, TRUE, FALSE, <<>>)

Chunks ==
    { ControlChunk, NoTextChunk, NullTextChunk, EmptyTextChunk,
      Chunk(TRUE, TRUE, FALSE, <<"H", "e", "l">>),
      Chunk(TRUE, TRUE, FALSE, <<"l", "o">>) }

ChunkStreams ==
    UNION { [1..n -> Chunks] : n \in 0..MaxStreamLen }

\* ClaudeModel._extract_text_from_stream_chunk returns chunk.delta.text,
\* and the loop of BaseAIModel.stream_brochure_generation yields it, when
\* the chunk has a delta with a text attribute that is truthy.
ClaudeChunkYields(c) ==
    c.hasDelta /\ c.hasText /\ ~c.isNull /\ c.text # <<>>

\* OpenAIModel.stream_brochure_generation yields
\* chunk.choices[0].delta.content when it is not None.
OpenAIChunkYields(c) ==
    c.hasDelta /\ c.hasText /\ ~c.isNull

ChunkYields(c) ==
    IF provider = "Claude" THEN ClaudeChunkYields(c) ELSE OpenAIChunkYields(c)

AfterExtractionKeepsReading == "streaming"

\* Where the loop body goes once a chunk gave text: to the yield statement.
AfterExtraction == "yield"

AfterStreamRaisesRetries == "attempt"

\* The transport raised while the stream was iterated, inside the try block
\* and outside the retry loop: the except clause logs and re-raises.
AfterStreamRaises == "done"

ProviderFrame ==
    UNCHANGED <<provider, max_retries, attempt, calls, trace, clock, failures,
                response, ccExc>>

\* stream_brochure_generation(...) is called on the provider: a generator
\* object is made, none of the body runs.
provider_stream_call ==
    /\ ppc = "idle"
    /\ op' = "stream_brochure_generation"
    /\ \E a \in BrochureArgs : opArgs' = a
    /\ sgen' = "created"
    /\ ppc' = "gen_created"
    /\ UNCHANGED <<cc, opResult, messages, stream, chunksRead, pending,
                   handed>>
    /\ ProviderFrame

\* The caller's next(): a new generator starts its body, which builds the
\* messages and calls _create_completion_with_retry(stream=True); a
\* suspended one resumes after its yield.
provider_stream_next ==
    /\ op = "stream_brochure_generation"
    /\ \/ /\ sgen = "created"
          /\ ppc = "gen_created"
          /\ messages' = BrochureMessages(provider, opArgs)
          /\ ppc' = "attempt"
          /\ cc' = "running"
       \/ /\ sgen = "suspended"
          /\ ppc' = "streaming"
          /\ UNCHANGED <<cc, messages>>
    /\ sgen' = "running"
    /\ UNCHANGED <<op, opResult, opArgs, stream, chunksRead, pending, handed>>
    /\ ProviderFrame

\* The completion call is over: it raised, and the except clause logs and
\* re-raises out of the generator, or it returned the transport's stream.
provider_stream_open ==
    /\ op = "stream_brochure_generation"
    /\ ppc = "after_completion"
    /\ IF cc = "raised"
          THEN /\ opResult' = [kind |-> "raised", value |-> ccExc.kind]
               /\ sgen' = "finished"
               /\ ppc' = "done"
               /\ UNCHANGED stream
          ELSE /\ \E cs \in ChunkStreams : stream' = cs
               /\ ppc' = "streaming"
               /\ UNCHANGED <<opResult, sgen>>
    /\ UNCHANGED <<op, cc, mvars, chunksRead, pending, handed>>
    /\ ProviderFrame

\* for chunk in stream: the next chunk is read and its text extracted; the
\* stream is exhausted and the generator returns; or the transport raises
\* while iterating and the except clause logs and re-raises.
provider_stream_read ==
    /\ op = "stream_brochure_generation"
    /\ ppc = "streaming"
    /\ sgen = "running"
    /\ \/ /\ stream # <<>>
          /\ chunksRead' = chunksRead + 1
          /\ stream' = Tail(stream)
          /\ IF ChunkYields(Head(stream))
                THEN /\ pending' = Append(pending, Head(stream).text)
                     /\ ppc' = AfterExtraction
                ELSE UNCHANGED <<pending, ppc>>
          /\ UNCHANGED <<opResult, sgen>>
       \/ /\ stream = <<>>
          /\ opResult' = [kind |-> "returned", value |-> "exhausted"]
          /\ sgen' = "finished"
          /\ ppc' = "done"
          /\ UNCHANGED <<stream, chunksRead, pending>>
       \/ /\ stream # <<>>
          /\ opResult' = [kind |-> "raised", value |-> "connectivity"]
          /\ sgen' = "finished"
          /\ ppc' = AfterStreamRaises
          /\ UNCHANGED <<stream, chunksRead, pending>>
    /\ UNCHANGED <<op, cc, mvars, handed>>
    /\ ProviderFrame

\* yield text: the fragment goes to the caller and the generator is
\* suspended until the caller's next next().
provider_stream_yield ==
    /\ op = "stream_brochure_generation"
    /\ ppc = "yield"
    /\ sgen = "running"
    /\ handed' = Append(handed, Head(pending))
    /\ pending' = Tail(pending)
    /\ sgen' = "suspended"
    /\ UNCHANGED <<op, ppc, cc, opResult, mvars, stream, chunksRead>>
    /\ ProviderFrame

\* The caller stops consuming and closes (or drops) the generator: a
\* created one never runs; a suspended one gets GeneratorExit at its
\* yield, which except Exception does not catch.
provider_stream_close ==
    /\ op = "stream_brochure_generation"
    /\ sgen \in {"created", "suspended"}
    /\ sgen' = "closed"
    /\ ppc' = "done"
    /\ UNCHANGED <<op, cc, opResult, mvars, stream, chunksRead, pending,
                   handed>>
    /\ ProviderFrame

-----------------------------------------------------------------------------
(* The orchestrator: values *)

\* Requests issued on one BrochureGenerator.
MaxRequests == 2

\* settings.SUPPORTED_LANGUAGES
SupportedLanguages ==
    {"en", "es", "fr", "de", "it", "pt", "zh", "ja", "ko", "ua"}

\* Language codes a caller may pass; "xx" is not supported.
Languages == {"en", "ua", "xx"}

CompanyNames ==
    { <<>>, <<" ">>, <<" ", "\t">>, <<"A">>, <<" ", "A", "c", " ">>,
      <<"a", "c", " ", "c", "o", ".">> }

HttpPrefix == <<"h", "t", "t", "p", ":", "/", "/">>

HttpsPrefix == <<"h", "t", "t", "p", "s", ":", "/", "/">>

WebsiteUrls ==
    { <<>>,
      HttpPrefix \o <<"a">>,
      HttpsPrefix \o <<"a">>,
      <<"f", "t", "p", ":", "/", "/", "a">>,
      <<"h", "t", "t", "p", ":", "/", "a">>,
      <<"a", ".", "c">> }

NoOptions == [given |-> FALSE]

\* settings.MAX_CONTENT_LENGTH (default)
MAX_CONTENT_LENGTH == 20000

\* GenerationOptions(): the dataclass defaults.
DefaultOptions ==
    [given |-> TRUE, language |-> "en", use_few_shot |-> TRUE,
     stream_output |-> FALSE, save_metadata |-> TRUE,
     max_content_length |-> MAX_CONTENT_LENGTH]

\* The options objects a caller passes.
CallerOptions ==
    { [given |-> TRUE, language |-> l, use_few_shot |-> f,
       stream_output |-> so, save_metadata |-> sm,
       max_content_length |-> MAX_CONTENT_LENGTH] :
         l \in Languages, f \in BOOLEAN, so \in BOOLEAN, sm \in BOOLEAN }
    \cup {NoOptions}

\* An outbound link of the main page, as filter_relevant_links sees it: its
\* netloc contains the base domain or not, its path holds a keyword or not.
AboutLink == [id |-> 1, sameDomain |-> TRUE, keyword |-> TRUE]

BlogLink == [id |-> 2, sameDomain |-> TRUE, keyword |-> FALSE]

OtherSiteLink == [id |-> 3, sameDomain |-> FALSE, keyword |-> TRUE]

Sites ==
    { <<>>, <<BlogLink, OtherSiteLink>>, <<AboutLink, BlogLink>> }

StageOrder ==
    <<"Validate", "ScrapeMain", "SelectLinks", "ScrapeSecondary", "Assemble",
      "Generate", "Persist", "Finalize">>

None == [isNone |-> TRUE]

NoGenerationResult == [isResult |-> FALSE]

OrchestratorIdle ==
    /\ requestNo = 0
    /\ mode = "none"
    /\ company_name = <<>>
    /\ website_url = <<>>
    /\ options = NoOptions
    /\ site = <<>>
    /\ pc = "idle"
    /\ gen = "none"
    /\ stages = <<>>
    /\ err = "none"
    /\ errAt = 0
    /\ scraper_max_retries = 0
    /\ fetchAttempt = 0
    /\ fetches = 0
    /\ http_response = "none"
    /\ main_content = None
    /\ providerCalls = 0
    /\ secondaryFetched = 0
    /\ yielded = <<>>
    /\ saved = FALSE
    /\ result = NoGenerationResult
    /\ outcome = "none"
    /\ closes = 0
    /\ session_closed = FALSE

-----------------------------------------------------------------------------
(* The orchestrator: input validation *)

IsPrefix(p, t) == Len(p) <= Len(t) /\ SubSeq(t, 1, Len(p)) = p

\* website_url.startswith(('http://', 'https://'))
StartsWithHttp(u) == IsPrefix(HttpPrefix, u) \/ IsPrefix(HttpsPrefix, u)

StartsWithHttpAnyScheme(u) == Len(u) > 0

ValidateInputsNoUrlCheck(name, url, lang) ==
    IF name = <<>> \/ Strip(name) = <<>>
       THEN "ValueError: Company name is required"
    ELSE IF lang \notin SupportedLanguages
       THEN "ValueError: Unsupported language"
    ELSE "ok"

\* BrochureGenerator._validate_inputs: the ValueError it raises, or "ok".
ValidateInputs(name, url, lang) ==
    IF name = <<>> \/ Strip(name) = <<>>
       THEN "ValueError: Company name is required"
    ELSE IF url = <<>> \/ ~StartsWithHttp(url)
       THEN "ValueError: Valid website URL is required"
    ELSE IF lang \notin SupportedLanguages
       THEN "ValueError: Unsupported language"
    ELSE "ok"

-----------------------------------------------------------------------------
(* The scraper *)

\* The fields of the dataclass WebsiteContent; none has a default value.
WebsiteContentFields == {"url", "title", "text", "links", "metadata"}

WebsiteContentKeywordsWithMetadata ==
    {"url", "title", "text", "links", "metadata"}

\* The keyword arguments scrape_website passes to WebsiteContent(...).
WebsiteContentKeywords == {"url", "title", "text", "links"}

\* WebsiteContent(...) raises TypeError when a field without a default gets
\* no argument.
ConstructorRaises == WebsiteContentFields \ WebsiteContentKeywords # {}

\* scrape_website once a response was obtained: the page is parsed and the
\* WebsiteContent built inside a try block whose except clause returns None.
ScrapeWebsiteParse(links) ==
    IF ConstructorRaises
       THEN None
       ELSE [isNone |-> FALSE, links |-> links]

\* WebsiteScraper.filter_relevant_links on links already classified.
filter_relevant_links(links) ==
    LET Keep(l) == l.sameDomain /\ l.keyword IN SelectSeq(links, Keep)

\* filtered_links[:20]
MaxCandidates == 20

CandidatesUncapped(filtered) == filtered

Candidates(filtered) ==
    SubSeq(filtered, 1, IF Len(filtered) < MaxCandidates
                           THEN Len(filtered) ELSE MaxCandidates)

\* WebsiteScraper defines scrape_website, filter_relevant_links and close;
\* self.scraper.scrape_multiple_websites(urls) names none of them.
ScraperMethods ==
    {"scrape_website", "filter_relevant_links", "close", "get_website_summary"}

-----------------------------------------------------------------------------
(* The orchestrator: the rest of the pipeline once the main page is held *)

\* The options the handler works with.
EffectiveOptions ==
    IF options.given THEN options
    ELSE IF mode = "stream"
       THEN [DefaultOptions EXCEPT !.stream_output = TRUE]
       ELSE DefaultOptions

FragmentAsResult(t) == [isResult |-> TRUE, text |-> t]

\* A text fragment as the stream yields it (a str, not a GenerationResult).
Fragment(t) == [isResult |-> FALSE, text |-> t]

\* What the provider's stream hands over, chunk by chunk, before it ends
\* or raises: nothing, "Hel" then "lo", or the same with an empty chunk.
Fragments ==
    { <<>>,
      <<Fragment(<<"H", "e", "l">>), Fragment(<<"l", "o">>)>>,
      <<Fragment(<<"H", "e", "l">>), Fragment(<<>>),
        Fragment(<<"l", "o">>)>> }

ConcatNewestFirst(fr) ==
    LET F[i \in 0..Len(fr)] ==
           IF i = 0 THEN <<>> ELSE fr[i].text \o F[i - 1]
    IN F[Len(fr)]

\* full_content = ""; for chunk in ...: full_content += chunk
Concat(fr) ==
    LET F[i \in 0..Len(fr)] ==
           IF i = 0 THEN <<>> ELSE F[i - 1] \o fr[i].text
    IN F[Len(fr)]

\* for chunk in ...: yield chunk
Forwarded(fr) ==
    LET F[i \in 0..Len(fr)] ==
           IF i = 0 THEN <<>> ELSE Append(F[i - 1], fr[i])
    IN F[Len(fr)]

\* The text a non-streaming generation call returns.
CannedText == <<"H", "i", " ", " ", "a", "l", "l", "\n">>

\* len(text.split()): the number of maximal runs of non-whitespace.
WordCount(t) ==
    Cardinality({ i \in 1..Len(t) :
                    /\ t[i] \notin Whitespace
                    /\ (i = 1 \/ t[i - 1] \in Whitespace) })

Rest(st, e, pcalls, sec, yl, sv, res) ==
    [stages |-> st, err |-> e, providerCalls |-> pcalls,
     secondaryFetched |-> sec, yielded |-> yl, saved |-> sv, result |-> res]

\* Lines 73-114 of generate_brochure and 138-169 of
\* stream_brochure_generation, for a main page mc: the stages run, and how
\* they end, in the handler of mode m working with options opts, for one
\* choice of what the collaborators do.  sel: the
\* provider's link selection ("raised", "empty", "some"); g: the generation
\* call ("raised", "ok"); fr: the fragments streamed before g ends; sv: the
\* brochure file could be written; md: save_metadata could write.
RestOfPipelineIn(m, opts, mc, sel, g, fr, sv, md) ==
    LET filtered == filter_relevant_links(mc.links)
        asked    == IF filtered = <<>> THEN 0 ELSE 1
        relevant == IF filtered # <<>> /\ sel = "some"
                       THEN Candidates(filtered) ELSE <<>>
        streams  == m = "stream" \/ opts.stream_output
        text     == IF streams THEN Concat(fr) ELSE CannedText
        path     == IF sv THEN "file" ELSE "None"
        toGen    == <<"SelectLinks", "ScrapeSecondary", "Assemble", "Generate">>
        produced == [isResult |-> TRUE, content |-> text, file_path |-> path,
                     word_count |-> WordCount(text)]
    IN
    IF filtered # <<>> /\ sel = "raised"
       THEN Rest(<<"SelectLinks">>, "extract_links raised", 1, 0, <<>>,
                 FALSE, NoGenerationResult)
    ELSE IF relevant # <<>> /\ "scrape_multiple_websites" \notin ScraperMethods
       THEN Rest(<<"SelectLinks", "ScrapeSecondary">>,
                 "AttributeError: scrape_multiple_websites", asked, 0, <<>>,
                 FALSE, NoGenerationResult)
    ELSE IF g = "raised"
       THEN Rest(toGen, "generation raised", asked + 1, Len(relevant),
                 IF m = "stream" THEN Forwarded(fr) ELSE <<>>,
                 FALSE, NoGenerationResult)
    ELSE IF m = "sync" /\ opts.save_metadata /\ ~md
       THEN Rest(toGen \o <<"Persist", "Finalize">>, "save_metadata raised",
                 asked + 1, Len(relevant), <<>>, sv, NoGenerationResult)
    ELSE Rest(toGen \o <<"Persist", "Finalize">>, "none", asked + 1,
              Len(relevant),
              IF m = "stream" THEN Append(Forwarded(fr), produced) ELSE <<>>,
              sv, produced)

\* The same for the request at hand.
RestOfPipeline(mc, sel, g, fr, sv, md) ==
    RestOfPipelineIn(mode, EffectiveOptions, mc, sel, g, fr, sv, md)

-----------------------------------------------------------------------------
(* The orchestrator: the request handlers *)

\* What a request leaves untouched: the generator object and its scraper.
RequestFrame == UNCHANGED <<requestNo, scraper_max_retries>>

\* The first statement of the try block of both handlers.
EntryPcSkipsValidation == "scrape_main"

EntryPc == "validate"

\* generate_brochure(company_name, website_url, options) is called: options
\* defaults, start_time is taken, the try block is entered.
generate_brochure_enter ==
    /\ pc = "idle"
    /\ requestNo < MaxRequests
    /\ \E n \in CompanyNames, u \in WebsiteUrls, o \in CallerOptions,
          w \in Sites :
          /\ company_name' = n
          /\ website_url' = u
          /\ options' = o
          /\ site' = w
    /\ requestNo' = requestNo + 1
    /\ mode' = "sync"
    /\ pc' = EntryPc
    /\ gen' = "none"
    /\ stages' = <<>>
    /\ err' = "none"
    /\ errAt' = 0
    /\ fetchAttempt' = 0
    /\ fetches' = 0
    /\ http_response' = "none"
    /\ main_content' = None
    /\ providerCalls' = 0
    /\ secondaryFetched' = 0
    /\ yielded' = <<>>
    /\ saved' = FALSE
    /\ result' = NoGenerationResult
    /\ outcome' = "none"
    /\ closes' = 0
    /\ UNCHANGED <<scraper_max_retries, session_closed>>

\* stream_brochure_generation(...) is called: a generator object is made;
\* none of the body runs before the consumer advances it.
stream_brochure_generation_call ==
    /\ pc = "idle"
    /\ requestNo < MaxRequests
    /\ \E n \in CompanyNames, u \in WebsiteUrls, o \in CallerOptions,
          w \in Sites :
          /\ company_name' = n
          /\ website_url' = u
          /\ options' = o
          /\ site' = w
    /\ requestNo' = requestNo + 1
    /\ mode' = "stream"
    /\ pc' = "gen_created"
    /\ gen' = "created"
    /\ stages' = <<>>
    /\ err' = "none"
    /\ errAt' = 0
    /\ fetchAttempt' = 0
    /\ fetches' = 0
    /\ http_response' = "none"
    /\ main_content' = None
    /\ providerCalls' = 0
    /\ secondaryFetched' = 0
    /\ yielded' = <<>>
    /\ saved' = FALSE
    /\ result' = NoGenerationResult
    /\ outcome' = "none"
    /\ closes' = 0
    /\ UNCHANGED <<scraper_max_retries, session_closed>>

\* The consumer's first next(): the body starts; a given options object
\* gets stream_output = True; the try block is entered.
stream_brochure_generation_start ==
    /\ pc = "gen_created"
    /\ gen = "created"
    /\ gen' = "running"
    /\ options' = IF options.given
                     THEN [options EXCEPT !.stream_output = TRUE]
                     ELSE options
    /\ pc' = EntryPc
    /\ UNCHANGED <<mode, company_name, website_url, site, stages, err, errAt,
                   fetchAttempt, fetches, http_response, main_content,
                   providerCalls, secondaryFetched, yielded, saved, result,
                   outcome, closes, session_closed>>
    /\ RequestFrame

\* The consumer drops or closes the generator without ever advancing it:
\* the body, its finally clause included, never runs.
consumer_abandons_unstarted ==
    /\ pc = "gen_created"
    /\ gen = "created"
    /\ gen' = "finished"
    /\ pc' = "done"
    /\ UNCHANGED <<mode, company_name, website_url, options, site, stages, err,
                   errAt, fetchAttempt, fetches, http_response, main_content,
                   providerCalls, secondaryFetched, yielded, saved, result,
                   outcome, closes, session_closed>>
    /\ RequestFrame

\* self._validate_inputs(company_name, website_url, options)
validate_inputs ==
    /\ pc = "validate"
    /\ stages' = Append(stages, "Validate")
    /\ LET v == ValidateInputs(company_name, website_url,
                               EffectiveOptions.language) IN
       IF v = "ok"
          THEN /\ pc' = "scrape_main"
               /\ UNCHANGED <<err, errAt>>
          ELSE /\ pc' = "except"
               /\ err' = v
               /\ errAt' = Len(stages) + 1
    /\ UNCHANGED <<mode, company_name, website_url, options, site, gen,
                   fetchAttempt, fetches, http_response, main_content,
                   providerCalls, secondaryFetched, yielded, saved, result,
                   outcome, closes, session_closed>>
    /\ RequestFrame

\* self._scrape_main_website(website_url): scraper.scrape_website(url) is
\* entered and calls _make_request_with_retry.
scrape_main_website ==
    /\ pc = "scrape_main"
    /\ stages' = Append(stages, "ScrapeMain")
    /\ fetchAttempt' = 0
    /\ pc' = "fetch"
    /\ UNCHANGED <<mode, company_name, website_url, options, site, gen, err,
                   errAt, fetches, http_response, main_content, providerCalls,
                   secondaryFetched, yielded, saved, result, outcome, closes,
                   session_closed>>
    /\ RequestFrame

\* One iteration of _make_request_with_retry: session.get and
\* raise_for_status succeed and the response is returned, or a
\* RequestException is caught: None on the last attempt, a sleep otherwise.
make_request_attempt ==
    /\ pc = "fetch"
    /\ fetchAttempt < scraper_max_retries
    /\ fetches' = fetches + 1
    /\ \/ /\ http_response' = "response"
          /\ pc' = "parse"
       \/ /\ http_response' = "None"
          /\ pc' = IF fetchAttempt = scraper_max_retries - 1
                      THEN "scraped" ELSE "fetch_sleep"
    /\ UNCHANGED <<mode, company_name, website_url, options, site, gen, stages,
                   err, errAt, fetchAttempt, main_content, providerCalls,
                   secondaryFetched, yielded, saved, result, outcome, closes,
                   session_closed>>
    /\ RequestFrame

\* time.sleep(2 ** attempt), then the next iteration.
make_request_sleep ==
    /\ pc = "fetch_sleep"
    /\ fetchAttempt' = fetchAttempt + 1
    /\ pc' = "fetch"
    /\ UNCHANGED <<mode, company_name, website_url, options, site, gen, stages,
                   err, errAt, fetches, http_response, main_content,
                   providerCalls, secondaryFetched, yielded, saved, result,
                   outcome, closes, session_closed>>
    /\ RequestFrame

\* return None after the loop (an empty range(self.max_retries)).
make_request_after_loop ==
    /\ pc = "fetch"
    /\ fetchAttempt >= scraper_max_retries
    /\ http_response' = "None"
    /\ pc' = "scraped"
    /\ UNCHANGED <<mode, company_name, website_url, options, site, gen, stages,
                   err, errAt, fetchAttempt, fetches, main_content,
                   providerCalls, secondaryFetched, yielded, saved, result,
                   outcome, closes, session_closed>>
    /\ RequestFrame

\* scrape_website with a response in hand: parse it, build the
\* WebsiteContent, return it; None when that raises.
scrape_website_parse ==
    /\ pc = "parse"
    /\ main_content' = ScrapeWebsiteParse(site)
    /\ pc' = "scraped"
    /\ UNCHANGED <<mode, company_name, website_url, options, site, gen, stages,
                   err, errAt, fetchAttempt, fetches, http_response,
                   providerCalls, secondaryFetched, yielded, saved, result,
                   outcome, closes, session_closed>>
    /\ RequestFrame

\* The handler goes on with the pipeline for the page it holds, to the end
\* of the try block or to the statement that raises.
RunRestOfPipeline(mc) ==
    \E sel \in {"raised", "empty", "some"}, g \in {"raised", "ok"},
       fr \in Fragments, sv \in BOOLEAN, md \in BOOLEAN :
       LET r == RestOfPipeline(mc, sel, g, fr, sv, md) IN
       /\ stages' = stages \o r.stages
       /\ providerCalls' = r.providerCalls
       /\ secondaryFetched' = r.secondaryFetched
       /\ yielded' = r.yielded
       /\ saved' = r.saved
       /\ result' = r.result
       /\ err' = r.err
       /\ errAt' = IF r.err = "none" THEN errAt ELSE Len(stages) + Len(r.stages)
       /\ pc' = IF r.err = "none" THEN "finally" ELSE "except"

\* generate_brochure after _scrape_main_website returned:
\* if not main_content: raise ValueError("Failed to scrape main website")
generate_brochure_after_scrape ==
    /\ pc = "scraped"
    /\ mode = "sync"
    /\ IF main_content = None
          THEN /\ err' = "ValueError: Failed to scrape main website"
               /\ errAt' = Len(stages)
               /\ pc' = "except"
               /\ UNCHANGED <<stages, providerCalls, secondaryFetched, yielded,
                              saved, result>>
          ELSE RunRestOfPipeline(main_content)
    /\ UNCHANGED <<mode, company_name, website_url, options, site, gen,
                   fetchAttempt, fetches, http_response, main_content, outcome,
                   closes, session_closed>>
    /\ RequestFrame

\* stream_brochure_generation after _scrape_main_website returned: there is
\* no test of main_content; main_content.links is evaluated next and raises
\* AttributeError on None.
stream_brochure_generation_after_scrape ==
    /\ pc = "scraped"
    /\ mode = "stream"
    /\ IF main_content = None
          THEN /\ err' = "AttributeError: NoneType has no attribute links"
               /\ errAt' = Len(stages)
               /\ pc' = "except"
               /\ UNCHANGED <<stages, providerCalls, secondaryFetched, yielded,
                              saved, result>>
          ELSE RunRestOfPipeline(main_content)
    /\ UNCHANGED <<mode, company_name, website_url, options, site, gen,
                   fetchAttempt, fetches, http_response, main_content, outcome,
                   closes, session_closed>>
    /\ RequestFrame

ExceptClauseSwallows == FALSE

\* except Exception as e: logger.error(...); raise
ExceptClauseReraises == TRUE

FinallyClosesOnSuccessOnly == err = "none"

\* finally: self.scraper.close()
FinallyCloses == TRUE

\* The except and finally clauses of generate_brochure.
generate_brochure_exit ==
    /\ pc \in {"except", "finally"}
    /\ mode = "sync"
    /\ outcome' = IF pc = "except" /\ ExceptClauseReraises
                     THEN "raised" ELSE "returned"
    /\ closes' = IF FinallyCloses THEN closes + 1 ELSE closes
    /\ session_closed' = (session_closed \/ FinallyCloses)
    /\ pc' = "done"
    /\ UNCHANGED <<mode, company_name, website_url, options, site, gen, stages,
                   err, errAt, fetchAttempt, fetches, http_response,
                   main_content, providerCalls, secondaryFetched, yielded,
                   saved, result>>
    /\ RequestFrame

\* The except and finally clauses of stream_brochure_generation; the
\* generator is finished and the exception, if any, reaches the consumer.
stream_brochure_generation_exit ==
    /\ pc \in {"except", "finally"}
    /\ mode = "stream"
    /\ outcome' = IF pc = "except" /\ ExceptClauseReraises
                     THEN "raised" ELSE "returned"
    /\ closes' = IF FinallyCloses THEN closes + 1 ELSE closes
    /\ session_closed' = (session_closed \/ FinallyCloses)
    /\ gen' = "finished"
    /\ pc' = "done"
    /\ UNCHANGED <<mode, company_name, website_url, options, site, stages, err,
                   errAt, fetchAttempt, fetches, http_response, main_content,
                   providerCalls, secondaryFetched, yielded, saved, result>>
    /\ RequestFrame

\* The caller has the outcome and the handler's frame is gone; the
\* generator object, with its scraper, is ready for another request.
request_finished ==
    /\ pc = "done"
    /\ requestNo < MaxRequests
    /\ pc' = "idle"
    /\ mode' = "none"
    /\ company_name' = <<>>
    /\ website_url' = <<>>
    /\ options' = NoOptions
    /\ site' = <<>>
    /\ gen' = "none"
    /\ stages' = <<>>
    /\ err' = "none"
    /\ errAt' = 0
    /\ fetchAttempt' = 0
    /\ fetches' = 0
    /\ http_response' = "none"
    /\ main_content' = None
    /\ providerCalls' = 0
    /\ secondaryFetched' = 0
    /\ yielded' = <<>>
    /\ saved' = FALSE
    /\ result' = NoGenerationResult
    /\ outcome' = "none"
    /\ closes' = 0
    /\ UNCHANGED session_closed
    /\ RequestFrame

-----------------------------------------------------------------------------
FunctionIdle ==
    /\ fn = "none"
    /\ args = <<>>
    /\ ret = <<>>

StreamIdle ==
    /\ sgen = "none"
    /\ stream = <<>>
    /\ chunksRead = 0
    /\ pending = <<>>
    /\ handed = <<>>

ProviderInit ==
    /\ provider \in Providers
    /\ max_retries \in 0..MaxRetriesBound
    /\ op = "none"
    /\ ppc = "idle"
    /\ attempt = 0
    /\ calls = 0
    /\ trace = <<>>
    /\ clock = 0
    /\ failures = <<>>
    /\ response = NoResponse
    /\ cc = "none"
    /\ ccExc = NoExc
    /\ opResult = NoResult
    /\ opArgs = NoArgs
    /\ messages = NoMessages
    /\ construction = NotConstructing
    /\ StreamIdle
    /\ OrchestratorIdle
    /\ FunctionIdle

ProviderNext ==
    \/ BeginOperation /\ UNCHANGED <<ovars, svars, fvars, cvars>>
    \/ retry_with_backoff_attempt /\ UNCHANGED <<ovars, svars, fvars, cvars>>
    \/ retry_with_backoff_sleep /\ UNCHANGED <<ovars, svars, fvars, cvars>>
    \/ retry_with_backoff_after_loop /\ UNCHANGED <<ovars, svars, fvars, cvars>>
    \/ openai_create_completion_attempt /\ UNCHANGED <<ovars, svars, fvars, cvars>>
    \/ openai_create_completion_sleep /\ UNCHANGED <<ovars, svars, fvars, cvars>>
    \/ openai_create_completion_after_loop /\ UNCHANGED <<ovars, svars, fvars, cvars>>
    \/ FinishOperation /\ UNCHANGED <<ovars, svars, fvars, cvars>>
    \/ provider_stream_call /\ UNCHANGED <<ovars, fvars, cvars>>
    \/ provider_stream_next /\ UNCHANGED <<ovars, fvars, cvars>>
    \/ provider_stream_open /\ UNCHANGED <<ovars, fvars, cvars>>
    \/ provider_stream_read /\ UNCHANGED <<ovars, fvars, cvars>>
    \/ provider_stream_yield /\ UNCHANGED <<ovars, fvars, cvars>>
    \/ provider_stream_close /\ UNCHANGED <<ovars, fvars, cvars>>
    \/ BrochureGenerator_init /\ UNCHANGED <<ovars, svars, fvars>>
    \/ BrochureGenerator_init_after_test /\ UNCHANGED <<ovars, svars, fvars>>

ProviderSpec == ProviderInit /\ [][ProviderNext]_vars

-----------------------------------------------------------------------------
ProviderIdle ==
    /\ provider = "OpenAI"
    /\ max_retries = 0
    /\ op = "none"
    /\ ppc = "idle"
    /\ attempt = 0
    /\ calls = 0
    /\ trace = <<>>
    /\ clock = 0
    /\ failures = <<>>
    /\ response = NoResponse
    /\ cc = "none"
    /\ ccExc = NoExc
    /\ opResult = NoResult
    /\ opArgs = NoArgs
    /\ messages = NoMessages
    /\ construction = NotConstructing
    /\ StreamIdle

\* BrochureGenerator.__init__ has run: self.scraper = WebsiteScraper().
Init ==
    /\ ProviderIdle
    /\ FunctionIdle
    /\ requestNo = 0
    /\ mode = "none"
    /\ company_name = <<>>
    /\ website_url = <<>>
    /\ options = NoOptions
    /\ site = <<>>
    /\ pc = "idle"
    /\ gen = "none"
    /\ stages = <<>>
    /\ err = "none"
    /\ errAt = 0
    /\ scraper_max_retries \in 0..MaxRetriesBound
    /\ fetchAttempt = 0
    /\ fetches = 0
    /\ http_response = "none"
    /\ main_content = None
    /\ providerCalls = 0
    /\ secondaryFetched = 0
    /\ yielded = <<>>
    /\ saved = FALSE
    /\ result = NoGenerationResult
    /\ outcome = "none"
    /\ closes = 0
    /\ session_closed = FALSE

Next ==
    \/ generate_brochure_enter /\ UNCHANGED <<pvars, fvars>>
    \/ stream_brochure_generation_call /\ UNCHANGED <<pvars, fvars>>
    \/ stream_brochure_generation_start /\ UNCHANGED <<pvars, fvars>>
    \/ consumer_abandons_unstarted /\ UNCHANGED <<pvars, fvars>>
    \/ validate_inputs /\ UNCHANGED <<pvars, fvars>>
    \/ scrape_main_website /\ UNCHANGED <<pvars, fvars>>
    \/ make_request_attempt /\ UNCHANGED <<pvars, fvars>>
    \/ make_request_sleep /\ UNCHANGED <<pvars, fvars>>
    \/ make_request_after_loop /\ UNCHANGED <<pvars, fvars>>
    \/ scrape_website_parse /\ UNCHANGED <<pvars, fvars>>
    \/ generate_brochure_after_scrape /\ UNCHANGED <<pvars, fvars>>
    \/ stream_brochure_generation_after_scrape /\ UNCHANGED <<pvars, fvars>>
    \/ generate_brochure_exit /\ UNCHANGED <<pvars, fvars>>
    \/ stream_brochure_generation_exit /\ UNCHANGED <<pvars, fvars>>
    \/ request_finished /\ UNCHANGED <<pvars, fvars>>

Spec == Init /\ [][Next]_vars

-----------------------------------------------------------------------------
(* The text and link utilities *)

\* Longest outbound-link list explored.
MaxLinks == 24

\* A link list of n links in page order.  Kind "all": every link is on the
\* site's domain and has a keyword in its path; "offsite3": every third
\* link is on another domain; "plain2": every second link has no keyword.
LinkList(n, kind) ==
    [i \in 1..n |->
        [id |-> i,
         sameDomain |-> ~(kind = "offsite3" /\ i % 3 = 0),
         keyword |-> ~(kind = "plain2" /\ i % 2 = 0)]]

LinkLists ==
    { LinkList(n, kind) : n \in 0..MaxLinks,
                          kind \in {"all", "offsite3", "plain2"} }

\* LinkExtractor.extract(ai_model, scraper, website_url, links), the same
\* statements as BrochureGenerator._extract_relevant_links: what
\* ai_model.extract_links was given, and how the call ended, when the
\* provider's reply is sel ("raised", "empty", "some").
LinkExtractor_extract_result(links, sel) ==
    LET filtered_links == filter_relevant_links(links) IN
    IF filtered_links = <<>>
       THEN [called |-> FALSE, candidates |-> <<>>, raised |-> FALSE,
             links |-> <<>>]
    ELSE [called |-> TRUE, candidates |-> Candidates(filtered_links),
          raised |-> sel = "raised",
          links |-> IF sel = "some" THEN Candidates(filtered_links)
                                    ELSE <<>>]

LinkExtractor_extract ==
    /\ fn = "none"
    /\ \E l \in LinkLists, sel \in {"raised", "empty", "some"} :
          /\ args' = [links |-> l, sel |-> sel]
          /\ ret' = LinkExtractor_extract_result(l, sel)
    /\ fn' = "LinkExtractor.extract"

\* Longest content, and largest max_length, given to truncate_content.
MaxContentLen == 12

MaxTruncLen == 11

\* Contents: every text of "a" and "." up to the longest, and each of them
\* again with its full stops replaced by "!" and "?" in turn.
PlainContents ==
    UNION { [1..n -> {"a", "."}] : n \in 0..MaxContentLen }

OtherTerminators(c) ==
    [i \in 1..Len(c) |->
        IF c[i] = "." THEN (IF i % 2 = 1 THEN "!" ELSE "?") ELSE c[i]]

Contents == PlainContents \cup { OtherTerminators(c) : c \in PlainContents }

\* str.rfind(ch): the 0-based index of the last ch, -1 if there is none.
RFind(t, ch) ==
    LET at == { i \in 1..Len(t) : t[i] = ch } IN
    IF at = {} THEN -1 ELSE SetMax(at) - 1

EllipsisMarker == <<".", ".", ".">>

AtOrPastThreshold(last_sentence_end, max_length) ==
    5 * last_sentence_end >= 4 * max_length

\* last_sentence_end > max_length * 0.8; the float product compares with an
\* int index as 4 * max_length / 5 does, for every max_length to 200000.
PastThreshold(last_sentence_end, max_length) ==
    5 * last_sentence_end > 4 * max_length

HardCutWithoutMarker(content, max_length) == SubSeq(content, 1, max_length)

\* content[:max_length] + "..."
HardCut(content, max_length) ==
    SubSeq(content, 1, max_length) \o EllipsisMarker

\* text_utils.truncate_content(content, max_length)
truncate_content(content, max_length) ==
    IF Len(content) <= max_length
       THEN content
       ELSE LET truncated == SubSeq(content, 1, max_length)
                last_sentence_end ==
                    SetMax({ RFind(truncated, "."), RFind(truncated, "!"),
                             RFind(truncated, "?") })
            IN IF PastThreshold(last_sentence_end, max_length)
                  THEN SubSeq(content, 1, last_sentence_end + 1)
                  ELSE HardCut(content, max_length)

truncate_content_call ==
    /\ fn = "none"
    /\ \E c \in Contents, m \in 0..MaxTruncLen :
          /\ args' = [content |-> c, max_length |-> m]
          /\ ret' = truncate_content(c, m)
    /\ fn' = "truncate_content"

\* Most secondary pages given to combine.
MaxSecondary == 2

\* "Landing page:\n"
LandingLabel ==
    <<"L", "a", "n", "d", "i", "n", "g", " ", "p", "a", "g", "e", ":",
      "\n">>

\* "Webpage Title:\n"
TitleHeader ==
    <<"W", "e", "b", "p", "a", "g", "e", " ", "T", "i", "t", "l", "e",
      ":", "\n">>

\* "\nWebpage Contents:\n"
ContentsHeader ==
    <<"\n", "W", "e", "b", "p", "a", "g", "e", " ", "C", "o", "n", "t",
      "e", "n", "t", "s", ":", "\n">>

AboutPage ==
    <<"A", "b", "o", "u", "t", " ", "p", "a", "g", "e">>

CareersPage ==
    <<"C", "a", "r", "e", "e", "r", "s", " ", "p", "a", "g", "e">>

TeamPage ==
    <<"T", "e", "a", "m", " ", "p", "a", "g", "e">>

ProductsServicesPage ==
    <<"P", "r", "o", "d", "u", "c", "t", "s", "/", "S", "e", "r", "v",
      "i", "c", "e", "s", " ", "p", "a", "g", "e">>

ContactPage ==
    <<"C", "o", "n", "t", "a", "c", "t", " ", "p", "a", "g", "e">>

CompanyPage ==
    <<"C", "o", "m", "p", "a", "n", "y", " ", "p", "a", "g", "e">>

KwAbout ==
    <<"a", "b", "o", "u", "t">>

KwCareer ==
    <<"c", "a", "r", "e", "e", "r">>

KwJob ==
    <<"j", "o", "b">>

KwTeam ==
    <<"t", "e", "a", "m">>

KwProduct ==
    <<"p", "r", "o", "d", "u", "c", "t">>

KwService ==
    <<"s", "e", "r", "v", "i", "c", "e">>

KwContact ==
    <<"c", "o", "n", "t", "a", "c", "t">>

\* The URLs of secondary pages.
SecondaryUrls ==
    { <<"/", "a", "b", "o", "u", "t">>,
      <<"/", "C", "a", "r", "e", "e", "r", "s">>,
      <<"/", "j", "o", "b", "s">>,
      <<"/", "t", "e", "a", "m">>,
      <<"/", "s", "e", "r", "v", "i", "c", "e", "s">>,
      <<"/", "c", "o", "n", "t", "a", "c", "t">>,
      <<"/", "b", "l", "o", "g">>,
      <<"/", "a", "b", "o", "u", "t", "/", "t", "e", "a", "m">> }

\* str.lower(), on ASCII text.
Lower(t) ==
    [i \in 1..Len(t) |->
        IF \E k \in DOMAIN UpperLetters : UpperLetters[k] = t[i]
           THEN LowerLetters[CHOOSE k \in DOMAIN UpperLetters :
                                UpperLetters[k] = t[i]]
           ELSE t[i]]

determine_page_type_careers_first(url) ==
    LET url_lower == Lower(url) IN
    IF Contains(url_lower, KwCareer) \/ Contains(url_lower, KwJob)
       THEN CareersPage
    ELSE IF Contains(url_lower, KwAbout) THEN AboutPage
    ELSE IF Contains(url_lower, KwTeam) THEN TeamPage
    ELSE IF Contains(url_lower, KwProduct) \/ Contains(url_lower, KwService)
       THEN ProductsServicesPage
    ELSE IF Contains(url_lower, KwContact) THEN ContactPage
    ELSE CompanyPage

\* _determine_page_type(url, content), the same in BrochureGenerator and
\* ContentCombiner.
determine_page_type(url) ==
    LET url_lower == Lower(url) IN
    IF Contains(url_lower, KwAbout) THEN AboutPage
    ELSE IF Contains(url_lower, KwCareer) \/ Contains(url_lower, KwJob)
       THEN CareersPage
    ELSE IF Contains(url_lower, KwTeam) THEN TeamPage
    ELSE IF Contains(url_lower, KwProduct) \/ Contains(url_lower, KwService)
       THEN ProductsServicesPage
    ELSE IF Contains(url_lower, KwContact) THEN ContactPage
    ELSE CompanyPage

\* WebsiteContent.get_formatted_content()
get_formatted_content(page) ==
    TitleHeader \o page.title \o ContentsHeader \o page.text \o <<"\n", "\n">>

\* The page scraped at a URL.
PageAt(url) == [title |-> <<"T", url[2]>>, text |-> <<"x", ".">>]

MainPages ==
    { [title |-> <<"M">>, text |-> <<"h", "i", ".">>],
      [title |-> <<>>, text |-> <<>>] }

\* The maps of secondary pages, as the sequence of their keys in insertion
\* order (a dict keeps it, and has each key once).
AdditionalContents ==
    { a \in UNION { [1..n -> SecondaryUrls] : n \in 0..MaxSecondary } :
        \A i, j \in 1..Len(a) : i # j => a[i] # a[j] }

\* The max_length values given to combine.
CombineLengths == {40, 70, 200}

CombineLabelAfterContent(main, additional) ==
    LET C[i \in 0..Len(additional)] ==
           IF i = 0
              THEN LandingLabel \o get_formatted_content(main)
              ELSE C[i - 1]
                      \o get_formatted_content(PageAt(additional[i]))
                      \o <<"\n", "\n">>
                      \o determine_page_type(additional[i])
                      \o <<":", "\n">>
    IN C[Len(additional)]

\* combined = "Landing page:\n" + ...; for url, content in
\* additional.items(): combined += f"\n\n{page_type}:\n" + ...
Combined(main, additional) ==
    LET C[i \in 0..Len(additional)] ==
           IF i = 0
              THEN LandingLabel \o get_formatted_content(main)
              ELSE C[i - 1]
                      \o <<"\n", "\n">>
                      \o determine_page_type(additional[i])
                      \o <<":", "\n">>
                      \o get_formatted_content(PageAt(additional[i]))
    IN C[Len(additional)]

\* ContentCombiner.combine(main, additional, max_length):
\* the document as assembled, and what is returned once it is truncated.
ContentCombiner_combine_result(main, additional, max_length) ==
    LET combined == Combined(main, additional) IN
    [combined |-> combined,
     returned |-> IF Len(combined) > max_length
                     THEN truncate_content(combined, max_length)
                     ELSE combined]

ContentCombiner_combine ==
    /\ fn = "none"
    /\ \E mc \in MainPages, a \in AdditionalContents, m \in CombineLengths :
          /\ args' = [main_content |-> mc, additional_content |-> a,
                      max_length |-> m]
          /\ ret' = ContentCombiner_combine_result(mc, a, m)
    /\ fn' = "ContentCombiner.combine"

\* The 1-based place of the first character of t that is in S, Len(t) + 1
\* if there is none.
FirstIndex(t, S) ==
    LET at == { i \in 1..Len(t) : t[i] \in S } IN
    IF at = {} THEN Len(t) + 1 ELSE SetMin(at)

\* text_utils.clean_text: runs of whitespace become one space, and the ends
\* are stripped.
clean_text(text) ==
    LET kept == SelectSeq([i \in 1..Len(text) |-> <<i, text[i]>>],
                          LAMBDA c : \/ c[2] \notin Whitespace
                                     \/ c[1] = 1
                                     \/ text[c[1] - 1] \notin Whitespace)
    IN Strip([i \in 1..Len(kept) |->
                 IF kept[i][2] \in Whitespace THEN " " ELSE kept[i][2]])

\* str.split(): the maximal runs of non-whitespace, in order.
Split(t) ==
    LET W[i \in 1..(Len(t) + 1)] ==
           IF i > Len(t) THEN <<>>
           ELSE IF t[i] \in Whitespace THEN W[i + 1]
           ELSE LET e == i - 1 + FirstIndex(SubSeq(t, i, Len(t)), Whitespace)
                IN <<SubSeq(t, i, e - 1)>> \o W[e]
    IN W[1]

\* str.rstrip('.,')
RStripPunctuation(w) ==
    LET keep == { i \in 1..Len(w) : w[i] \notin {".", ","} } IN
    IF keep = {} THEN <<>> ELSE SubSeq(w, 1, SetMax(keep))

\* str.title(): a letter is capital when no letter comes before it, small
\* otherwise.
Title(w) ==
    LET Letter(c) == c \in { UpperLetters[k] : k \in DOMAIN UpperLetters }
                         \cup { LowerLetters[k] : k \in DOMAIN LowerLetters }
    IN [i \in 1..Len(w) |->
           IF i = 1 \/ ~Letter(w[i - 1])
              THEN Upper(<<w[i]>>)[1] ELSE Lower(<<w[i]>>)[1]]

\* suffixes = ['inc', 'corp', 'ltd', 'llc', 'co']
CompanySuffixes ==
    { <<"i", "n", "c">>, <<"c", "o", "r", "p">>, <<"l", "t", "d">>,
      <<"l", "l", "c">>, <<"c", "o">> }

\* text_utils.format_company_name(name)
format_company_name(name) ==
    IF name = <<>>
       THEN <<"U", "n", "k", "n", "o", "w", "n", " ", "C", "o", "m", "p",
              "a", "n", "y">>
       ELSE LET words == Split(clean_text(name))
                Formatted(word) ==
                   IF RStripPunctuation(Lower(word)) \in CompanySuffixes
                      THEN Upper(word) ELSE Title(word)
                J[i \in 0..Len(words)] ==
                   IF i = 0 THEN <<>>
                   ELSE IF i = 1 THEN Formatted(words[1])
                   ELSE J[i - 1] \o <<" ">> \o Formatted(words[i])
            IN J[Len(words)]

\* What the handler of mode m passes to the provider's generation call for
\* the request at hand, content being the assembled document:
\* stream_brochure_generation passes company_name as it came,
\* generate_brochure, through _generate_brochure_content or
\* _generate_streaming_brochure, passes format_company_name(company_name).
GenerationCall(m, content) ==
    LET o == IF options.given THEN options ELSE DefaultOptions IN
    [company_name |-> IF m = "stream" THEN company_name
                                      ELSE format_company_name(company_name),
     content |-> content,
     language |-> o.language,
     use_few_shot |-> o.use_few_shot]

\* Longest link list given to filter_relevant_links.
MaxFilterLen == 3

\* The keywords of filter_relevant_links.
RelevantKeywords ==
    { <<"a", "b", "o", "u", "t">>,
      <<"c", "o", "m", "p", "a", "n", "y">>,
      <<"t", "e", "a", "m">>,
      <<"c", "a", "r", "e", "e", "r", "s">>,
      <<"j", "o", "b", "s">>,
      <<"c", "u", "l", "t", "u", "r", "e">>,
      <<"m", "i", "s", "s", "i", "o", "n">>,
      <<"v", "i", "s", "i", "o", "n">>,
      <<"v", "a", "l", "u", "e", "s">>,
      <<"h", "i", "s", "t", "o", "r", "y">>,
      <<"l", "e", "a", "d", "e", "r", "s", "h", "i", "p">>,
      <<"s", "e", "r", "v", "i", "c", "e", "s">>,
      <<"p", "r", "o", "d", "u", "c", "t", "s">>,
      <<"s", "o", "l", "u", "t", "i", "o", "n", "s">>,
      <<"p", "o", "r", "t", "f", "o", "l", "i", "o">>,
      <<"w", "o", "r", "k">> }

\* The links given to filter_relevant_links, each with the network location
\* and the path urllib.parse.urlparse reports for it (parses is FALSE when
\* urlparse raises ValueError).
FilterLinks ==
    { [url |-> <<"h", "t", "t", "p", "s", ":", "/", "/", "a", "c", "m", "e",
                ".", "c", "o", "m", "/", "a", "b", "o", "u",
                "t">>,
        parses |-> TRUE,
        netloc |-> <<"a", "c", "m", "e", ".", "c", "o", "m">>,
        path |-> <<"/", "a", "b", "o", "u", "t">>],
      [url |-> <<"h", "t", "t", "p", "s", ":", "/", "/", "a", "c", "m", "e",
                ".", "c", "o", "m", "/", "b", "l", "o", "g">>,
        parses |-> TRUE,
        netloc |-> <<"a", "c", "m", "e", ".", "c", "o", "m">>,
        path |-> <<"/", "b", "l", "o", "g">>],
      [url |-> <<"h", "t", "t", "p", "s", ":", "/", "/", "o", "t", "h", "e",
                "r", ".", "c", "o", "m", "/", "a", "b", "o",
                "u", "t">>,
        parses |-> TRUE,
        netloc |-> <<"o", "t", "h", "e", "r", ".", "c", "o", "m">>,
        path |-> <<"/", "a", "b", "o", "u", "t">>],
      [url |-> <<"h", "t", "t", "p", "s", ":", "/", "/", "a", "c", "m", "e",
                ".", "c", "o", "m", "/", "T", "e", "a", "m">>,
        parses |-> TRUE,
        netloc |-> <<"a", "c", "m", "e", ".", "c", "o", "m">>,
        path |-> <<"/", "T", "e", "a", "m">>],
      [url |-> <<"h", "t", "t", "p", "s", ":", "/", "/", "a", "c", "m", "e",
                ".", "c", "o", "m", "/", "x", "?", "p", "=",
                "j", "o", "b", "s">>,
        parses |-> TRUE,
        netloc |-> <<"a", "c", "m", "e", ".", "c", "o", "m">>,
        path |-> <<"/", "x">>],
      [url |-> <<"h", "t", "t", "p", "s", ":", "/", "/", "j", "o", "b", "s",
                ".", "a", "c", "m", "e", ".", "c", "o", "m",
                "/", "x">>,
        parses |-> TRUE,
        netloc |-> <<"j", "o", "b", "s", ".", "a", "c", "m", "e", ".", "c", "o",
                   "m">>,
        path |-> <<"/", "x">>],
      [url |-> <<"h", "t", "t", "p", "s", ":", "/", "/", "x", "a", "c", "m",
                "e", ".", "c", "o", "m", "/", "w", "o", "r",
                "k", "#", "t", "o", "p">>,
        parses |-> TRUE,
        netloc |-> <<"x", "a", "c", "m", "e", ".", "c", "o", "m">>,
        path |-> <<"/", "w", "o", "r", "k">>],
      [url |-> <<"/", "a", "b", "o", "u", "t">>,
        parses |-> TRUE,
        netloc |-> <<>>,
        path |-> <<"/", "a", "b", "o", "u", "t">>],
      [url |-> <<"h", "t", "t", "p", "s", ":", "/", "/", "[", "a", "c", "m",
                "e", ".", "c", "o", "m", "/", "a", "b", "o",
                "u", "t">>,
        parses |-> FALSE,
        netloc |-> <<>>,
        path |-> <<>>] }

\* The base domains given to filter_relevant_links: "acme.com", "other.com"
\* and the empty string.
BaseDomains ==
    { <<"a", "c", "m", "e", ".", "c", "o", "m">>,
      <<"o", "t", "h", "e", "r", ".", "c", "o", "m">>,
      <<>> }

\* Characters a URL scheme is made of.
SchemeChars ==
    { UpperLetters[k] : k \in DOMAIN UpperLetters }
       \cup { LowerLetters[k] : k \in DOMAIN LowerLetters }
       \cup {"0", "1", "2", "3", "4", "5", "6", "7", "8", "9", "+", "-", "."}

\* urllib.parse.urlparse(link): the scheme up to the first ":" is taken
\* off, a leading "//" opens the network location, which runs to the first
\* "/", "?" or "#"; the path runs from there to the first "?" or "#".  A
\* network location with one square bracket and not the other raises
\* ValueError.
urlparse(link) ==
    LET colon     == FirstIndex(link, {":"})
        hasScheme == /\ colon > 1
                     /\ colon <= Len(link)
                     /\ \A i \in 1..(colon - 1) : link[i] \in SchemeChars
                     /\ link[1] \notin {"0", "1", "2", "3", "4", "5", "6",
                                         "7", "8", "9", "+", "-", "."}
        rest      == IF hasScheme THEN SubSeq(link, colon + 1, Len(link))
                                  ELSE link
        hasNetloc == IsPrefix(<<"/", "/">>, rest)
        after     == IF hasNetloc THEN SubSeq(rest, 3, Len(rest)) ELSE rest
        delim     == IF hasNetloc THEN FirstIndex(after, {"/", "?", "#"})
                                  ELSE 1
        netloc    == SubSeq(after, 1, delim - 1)
        tail      == SubSeq(after, delim, Len(after))
    IN [raises |-> (\E i \in 1..Len(netloc) : netloc[i] = "[")
                      # (\E i \in 1..Len(netloc) : netloc[i] = "]"),
        netloc |-> netloc,
        path   |-> SubSeq(tail, 1, FirstIndex(tail, {"?", "#"}) - 1)]

url_lower(parsed, link) == Lower(link)

\* path_lower = parsed.path.lower()
path_lower(parsed, link) == Lower(parsed.path)

\* The body of the loop of filter_relevant_links for one link: TRUE when
\* the link is appended to relevant_links.
FilterKeeps(link, base_domain) ==
    LET parsed == urlparse(link) IN
    IF parsed.raises THEN FALSE
    ELSE IF ~Contains(parsed.netloc, base_domain) THEN FALSE
    ELSE \E keyword \in RelevantKeywords :
            Contains(path_lower(parsed, link), keyword)

\* WebsiteScraper.filter_relevant_links(links, base_domain)
WebsiteScraper_filter_relevant_links(links, base_domain) ==
    LET Keep(link) == FilterKeeps(link, base_domain) IN SelectSeq(links, Keep)

filter_relevant_links_call ==
    /\ fn = "none"
    /\ \E l \in UNION { [1..n -> FilterLinks] : n \in 0..MaxFilterLen },
          d \in BaseDomains :
          /\ args' = [links |-> l, base_domain |-> d]
          /\ ret' = WebsiteScraper_filter_relevant_links(
                       [i \in 1..Len(l) |-> l[i].url], d)
    /\ fn' = "filter_relevant_links"

\* Values of settings.MAX_CONTENT_LENGTH explored: the default, and a small
\* one set through the environment.
ContentLengthSettings == {70, MAX_CONTENT_LENGTH}

\* BrochureGenerator._combine_website_content(main_content,
\* additional_content) under a value of settings.MAX_CONTENT_LENGTH: the
\* document is assembled as in ContentCombiner.combine and cut with the
\* module-level setting; the request's options are not a parameter.
BrochureGenerator_combine_website_content(main, additional, setting) ==
    LET combined == Combined(main, additional) IN
    IF Len(combined) > setting
       THEN truncate_content(combined, setting)
       ELSE combined

\* The handler assembles the document of a request whose options carry
\* max_content_length.
combine_website_content_call ==
    /\ fn = "none"
    /\ \E mc \in MainPages, a \in AdditionalContents, m \in CombineLengths,
          g \in ContentLengthSettings :
          /\ args' = [main_content |-> mc, additional_content |-> a,
                      max_content_length |-> m, MAX_CONTENT_LENGTH |-> g]
          /\ ret' = BrochureGenerator_combine_website_content(mc, a, g)
    /\ fn' = "_combine_website_content"

\* URLs that match several categories, or one in capitals: "/about/careers",
\* "/careers/about-us", "/team/jobs", "/contact/products", "/Contact-Team",
\* "/ABOUT", "/service/contact", "/job-team".
AmbiguousUrls ==
    { <<"/", "a", "b", "o", "u", "t", "/", "c", "a", "r", "e", "e", "r",
        "s">>,
      <<"/", "c", "a", "r", "e", "e", "r", "s", "/", "a", "b", "o", "u",
        "t", "-", "u", "s">>,
      <<"/", "t", "e", "a", "m", "/", "j", "o", "b", "s">>,
      <<"/", "c", "o", "n", "t", "a", "c", "t", "/", "p", "r", "o", "d",
        "u", "c", "t", "s">>,
      <<"/", "C", "o", "n", "t", "a", "c", "t", "-", "T", "e", "a", "m">>,
      <<"/", "A", "B", "O", "U", "T">>,
      <<"/", "s", "e", "r", "v", "i", "c", "e", "/", "c", "o", "n", "t",
        "a", "c", "t">>,
      <<"/", "j", "o", "b", "-", "t", "e", "a", "m">> }

\* _determine_page_type(url, content) called for the page at url.
determine_page_type_call ==
    /\ fn = "none"
    /\ \E u \in SecondaryUrls \cup AmbiguousUrls :
          /\ args' = [url |-> u]
          /\ ret' = determine_page_type(u)
    /\ fn' = "_determine_page_type"

\* The caller has what the function returned.
function_returns ==
    /\ fn # "none"
    /\ fn' = "none"
    /\ args' = <<>>
    /\ ret' = <<>>

FunctionInit ==
    /\ ProviderIdle
    /\ OrchestratorIdle
    /\ FunctionIdle

FunctionNext ==
    \/ LinkExtractor_extract /\ UNCHANGED <<pvars, ovars>>
    \/ truncate_content_call /\ UNCHANGED <<pvars, ovars>>
    \/ ContentCombiner_combine /\ UNCHANGED <<pvars, ovars>>
    \/ filter_relevant_links_call /\ UNCHANGED <<pvars, ovars>>
    \/ combine_website_content_call /\ UNCHANGED <<pvars, ovars>>
    \/ determine_page_type_call /\ UNCHANGED <<pvars, ovars>>
    \/ function_returns /\ UNCHANGED <<pvars, ovars>>

FunctionSpec == FunctionInit /\ [][FunctionNext]_vars

-----------------------------------------------------------------------------
(* Properties of the completion call (ProviderSpec) *)

\* The calls and sleeps of a completion call whose first k attempts failed
\* and whose attempt k+1 was made: call 1, sleep 2^0, call 2, sleep 2^1, ...,
\* call k+1.
ExpectedTrace(k) ==
    [j \in 1..(2 * k + 1) |->
        IF j % 2 = 1 THEN CallEvent((j + 1) \div 2)
                     ELSE SleepEvent(2 ^ ((j \div 2) - 1))]

\* C1: when the transport fails on attempts 1..k and succeeds on attempt
\* k+1, the completion call of either provider has called the transport
\* exactly k+1 times, has slept 2^(i-1) seconds between attempt i and
\* attempt i+1 and at no other place (none before attempt 1), 2^k - 1
\* seconds in all, and returns the response of attempt k+1.
C1_RetryTraceOnSuccess ==
    cc = "returned" =>
        LET k == Len(failures) IN
        /\ k + 1 <= max_retries
        /\ calls = k + 1
        /\ trace = ExpectedTrace(k)
        /\ clock = 2 ^ k - 1
        /\ response.id = k + 1

C1_Witness ==
    /\ cc = "returned"
    /\ max_retries = 3
    /\ Len(failures) = 2
    /\ calls = 3
    /\ clock = 3

\* C2: when every attempt fails, the transport has been called exactly
\* max_retries times, the last event of the call is the failed attempt (no
\* sleep follows it), and the completion call ends by raising the exception
\* of that last attempt; no response is returned.  (With max_retries = 0
\* there is no attempt, and the call raises "Max retries exceeded".)
C2_RetryExhaustion ==
    /\ cc = "raised" =>
          /\ calls = max_retries
          /\ Len(failures) = max_retries
          /\ response = NoResponse
          /\ IF max_retries > 0
                THEN /\ ccExc = failures[max_retries]
                     /\ ccExc.at = max_retries
                     /\ trace = ExpectedTrace(max_retries - 1)
                ELSE ccExc = MaxRetriesExceeded /\ trace = <<>>
    /\ (Len(failures) = max_retries /\ max_retries > 0) => cc = "raised"
    /\ (ppc = "done" /\ cc = "raised" /\ op # "test_connection") =>
          opResult = [kind |-> "raised", value |-> ccExc.kind]

C2_Witness ==
    /\ cc = "raised"
    /\ max_retries = 3
    /\ calls = 3
    /\ clock = 3
    /\ ccExc.at = 3

\* The operation ended on an error raised after the transport had returned:
\* the response lacked the expected nesting, or (extract_links) its text
\* was not JSON.
EndedOnResponseError ==
    /\ ppc = "done"
    /\ op \in Operations
    /\ cc = "returned"
    /\ \/ ExtractTextRaises(response)
       \/ op = "extract_links" /\ JsonLoadsRaises(response)

\* C3, as claimed: an error of any kind other than connectivity propagates
\* on its first occurrence, the transport having been called exactly once
\* and no backoff sleep taken.
C3_OnlyConnectivityRetried ==
    /\ \A i \in 1..Len(failures) :
          failures[i].kind # "connectivity" =>
              /\ calls = 1
              /\ clock = 0
              /\ cc = "raised"
              /\ ccExc = failures[i]
    /\ EndedOnResponseError => calls = 1 /\ clock = 0

\* C3, amended: an error raised after the transport returned (structural,
\* parse) ends the operation at once: no transport call and no sleep follows
\* the call that returned the response, and extract_links and
\* generate_brochure raise it.  An exception raised by the transport itself
\* is retried whatever its kind: the completion call raises only once
\* max_retries attempts have failed.
C3_ResponseErrorsNotRetried ==
    /\ EndedOnResponseError =>
          /\ calls = response.id
          /\ trace[Len(trace)] = CallEvent(response.id)
          /\ failures = <<>> => (calls = 1 /\ clock = 0)
          /\ op # "test_connection" =>
                /\ opResult.kind = "raised"
                /\ opResult.value \in {"structural", "parse"}
    /\ \A i \in 1..Len(failures) :
          (cc = "raised" /\ ccExc = failures[i]) => i = max_retries

C3_Witness ==
    /\ EndedOnResponseError
    /\ op = "extract_links"
    /\ opResult = [kind |-> "raised", value |-> "parse"]
    /\ calls = 2
    /\ failures[1].kind = "authentication"

-----------------------------------------------------------------------------
(* Properties of one request *)

Range(q) == { q[i] : i \in 1..Len(q) }

\* A request is in progress or just ended, and its handler body has run.
Started == mode # "none" /\ stages # <<>>

\* The WebsiteContent objects a handler could hold for the main page.
Pages == { [isNone |-> FALSE, links |-> w] : w \in Sites }

\* The ways the handler can go on from main page mc when the provider's
\* link selection is sel.
Continuations(mc, sel) ==
    { RestOfPipeline(mc, sel, g, fr, sv, md) :
        g \in {"raised", "ok"}, fr \in Fragments,
        sv \in BOOLEAN, md \in BOOLEAN }

AllContinuations ==
    UNION { Continuations(mc, sel) :
              mc \in Pages, sel \in {"raised", "empty", "some"} }

\* C4: in both handlers the stages run in the order Validate, ScrapeMain,
\* SelectLinks, ScrapeSecondary, Assemble, Generate, Persist, Finalize, each
\* after the one before it; the stage that raises is the last stage run, and
\* after it nothing is saved and no GenerationResult is produced.  The same
\* holds of every way the handler goes on from a main page.
C4_StageOrdering ==
    /\ IsPrefix(stages, StageOrder)
    /\ err # "none" =>
          /\ errAt = Len(stages)
          /\ result = NoGenerationResult
          /\ "Persist" \notin Range(stages) => ~saved
    /\ (mode # "none" /\ pc = "scraped") =>
          \A r \in AllContinuations :
             /\ IsPrefix(<<"Validate", "ScrapeMain">> \o r.stages, StageOrder)
             /\ r.err = "none" =>
                   <<"Validate", "ScrapeMain">> \o r.stages = StageOrder
             /\ r.err # "none" =>
                   /\ r.result = NoGenerationResult
                   /\ "Persist" \notin Range(r.stages) => ~r.saved

C4_Witness ==
    /\ pc = "done"
    /\ mode = "sync"
    /\ stages = <<"Validate", "ScrapeMain">>
    /\ err # "none"
    /\ errAt = 2

\* What the caller asked for is not a valid request: the name is empty or
\* all whitespace, the URL begins with neither http:// nor https://, or the
\* language is not a supported one.
InvalidRequest ==
    \/ \A i \in 1..Len(company_name) : company_name[i] \in Whitespace
    \/ ~(IsPrefix(HttpPrefix, website_url) \/ IsPrefix(HttpsPrefix, website_url))
    \/ EffectiveOptions.language \notin SupportedLanguages

ValidationErrors ==
    { "ValueError: Company name is required",
      "ValueError: Valid website URL is required",
      "ValueError: Unsupported language" }

\* C5: on both paths a request with an empty or whitespace-only company
\* name, a URL that begins with neither http:// nor https://, or an
\* unsupported language fails with a validation error, raised by the first
\* stage, and no page is fetched and no provider call made for it.
C5_ValidationPrecedesNetwork ==
    (mode # "none" /\ InvalidRequest) =>
       /\ fetches = 0
       /\ providerCalls = 0
       /\ stages # <<>> =>
             /\ stages = <<"Validate">>
             /\ err \in ValidationErrors
             /\ errAt = 1
       /\ (pc = "done" /\ stages # <<>>) => outcome = "raised"

C5_Witness ==
    /\ pc = "done"
    /\ mode = "stream"
    /\ company_name = <<"A">>
    /\ ~StartsWithHttp(website_url)
    /\ website_url # <<>>
    /\ err = "ValueError: Valid website URL is required"
    /\ outcome = "raised"
    /\ fetches = 0

\* The scraper has returned None for the main website.
MainPageFailed ==
    /\ mode # "none"
    /\ pc \in {"scraped", "except", "done"}
    /\ "ScrapeMain" \in Range(stages)
    /\ main_content = None

\* C6: when the scraper returns None for the main website, both handlers
\* end by raising, and neither calls the provider, yields a fragment, saves
\* a file or produces a GenerationResult.
C6_PrimaryPageFailureFatal ==
    MainPageFailed =>
       /\ providerCalls = 0
       /\ secondaryFetched = 0
       /\ yielded = <<>>
       /\ ~saved
       /\ result = NoGenerationResult
       /\ "SelectLinks" \notin Range(stages)
       /\ pc \in {"except", "done"} => err # "none"
       /\ pc = "done" => outcome = "raised"

C6_Witness ==
    /\ MainPageFailed
    /\ pc = "done"
    /\ mode = "stream"
    /\ http_response = "response"
    /\ outcome = "raised"

\* C7: whenever the provider selects a non-empty list of links, the
\* handler gets through ScrapeSecondary and goes on to Assemble and
\* Generate; nothing that happens in ScrapeSecondary ends the request.
C7_SecondaryFailuresRecovered ==
    mode # "none" =>
       \A mc \in Pages :
          filter_relevant_links(mc.links) # <<>> =>
             \A r \in Continuations(mc, "some") :
                /\ "Assemble" \in Range(r.stages)
                /\ "Generate" \in Range(r.stages)

\* C8: a valid request whose main page was fetched and whose links leave
\* no candidate after the filter makes no provider call for link selection,
\* fetches no secondary page, and reaches Generate.
C8_EmptySelectionDegrades ==
    ( /\ pc = "done"
      /\ Started
      /\ ~InvalidRequest
      /\ http_response = "response"
      /\ filter_relevant_links(site) = <<>> ) =>
       /\ secondaryFetched = 0
       /\ "Generate" \in Range(stages)

\* C9: every request whose handler body has run has called scraper.close()
\* by the time it is finished, however it ended.
C9_ScraperReleased ==
    (pc = "done" /\ Started) => (closes >= 1 /\ session_closed)

C9_Witness ==
    /\ pc = "done"
    /\ mode = "stream"
    /\ gen = "finished"
    /\ err \in ValidationErrors
    /\ closes = 1

\* A yielded sequence has the right shape: a GenerationResult only in last
\* place; none when the request failed, one when it did not.
StreamShape(y, failed) ==
    /\ \A i \in 1..Len(y) : y[i].isResult => i = Len(y)
    /\ failed => \A i \in 1..Len(y) : ~y[i].isResult
    /\ ~failed => (y # <<>> /\ y[Len(y)].isResult)

TextFragments(y) == SelectSeq(y, LAMBDA x : ~x.isResult)

\* C11: a streaming request that is valid and whose main page was fetched
\* ends having yielded the fragments of the provider's stream, in arrival
\* order, none dropped, duplicated, merged or reordered, and then a
\* GenerationResult whose content is their concatenation in that order.
C11_StreamingPreservesOrder ==
    ( /\ pc = "done"
      /\ mode = "stream"
      /\ Started
      /\ ~InvalidRequest
      /\ http_response = "response" ) =>
       \E fr \in Fragments :
          /\ yielded # <<>>
          /\ TextFragments(yielded) = fr
          /\ yielded[Len(yielded)].isResult
          /\ yielded[Len(yielded)].content = Concat(fr)

\* C14: a valid generate_brochure request with streaming off, whose main
\* page was fetched, returns one GenerationResult whose content is the text
\* the provider returned, unchanged, whose word_count is the number of
\* whitespace-delimited tokens of that text (two in "Hi  all\n"), and whose
\* file_path is not None.
C14_NonStreamingResult ==
    ( /\ pc = "done"
      /\ mode = "sync"
      /\ Started
      /\ ~InvalidRequest
      /\ ~EffectiveOptions.stream_output
      /\ http_response = "response" ) =>
       /\ outcome = "returned"
       /\ result.isResult
       /\ result.content = CannedText
       /\ result.word_count = 2
       /\ result.file_path # "None"

-----------------------------------------------------------------------------
(* Properties of the provider's streaming operation *)

\* C12: every fragment the provider's stream_brochure_generation hands to
\* its caller is a non-empty string, for both providers: a chunk with no
\* delta, no text attribute, a null text or an empty text gives no
\* fragment.
C12_OnlyNonEmptyStreamed ==
    /\ \A i \in 1..Len(handed) : handed[i] # <<>>
    /\ \A i \in 1..Len(pending) : pending[i] # <<>>

\* C13: a chunk is read from the transport's stream only while the caller
\* is waiting in next() and every fragment extracted so far has been handed
\* over, one chunk at a time; each yield hands over one fragment and
\* suspends the generator, so a caller that stops pulling stops the reading.
C13_PullBasedDelivery ==
    [][ /\ chunksRead' # chunksRead =>
              /\ sgen = "running"
              /\ pending = <<>>
              /\ chunksRead' = chunksRead + 1
        /\ handed' # handed =>
              /\ sgen' = "suspended"
              /\ pending' = <<>>
              /\ Len(handed') = Len(handed) + 1
              /\ chunksRead' = chunksRead
        /\ sgen \in {"suspended", "closed", "finished"} =>
              chunksRead' = chunksRead ]_vars

C13_Witness ==
    /\ sgen = "closed"
    /\ Len(handed) = 1
    /\ chunksRead = 1
    /\ stream # <<>>

\* extract_links got a reply whose text could be read and is not JSON.
ReplyNotJson ==
    /\ ppc = "done"
    /\ op = "extract_links"
    /\ cc = "returned"
    /\ response.wellFormed
    /\ response.text \notin JsonTexts

\* C16: when the reply to the link-selection call is not valid JSON,
\* extract_links raises the parse error to its caller (it returns nothing,
\* not an empty list); the call that brought the reply is the last event of
\* the completion call, with no further request and no sleep after it; and
\* a handler whose link selection raises stops there: no secondary page is
\* fetched, no brochure generated, no result produced.
C16_ParseFailureSurfaced ==
    ReplyNotJson =>
       /\ opResult = [kind |-> "raised", value |-> "parse"]
       /\ calls = response.id
       /\ trace[Len(trace)] = CallEvent(response.id)
       /\ failures = <<>> => (calls = 1 /\ clock = 0 /\ trace = <<CallEvent(1)>>)
       /\ \A mc \in Pages :
             filter_relevant_links(mc.links) # <<>> =>
                \A r \in Continuations(mc, "raised") :
                   /\ r.err # "none"
                   /\ r.secondaryFetched = 0
                   /\ r.providerCalls = 1
                   /\ r.stages = <<"SelectLinks">>
                   /\ r.result = NoGenerationResult
                   /\ ~r.saved

C16_Witness ==
    /\ ReplyNotJson
    /\ response.text = <<"N", "o">>
    /\ calls = 1
    /\ clock = 0
    /\ opResult.kind = "raised"

\* The text holds "OK" in any mix of cases.
HoldsOKAnyCase(t) ==
    \E i \in 1..(Len(t) - 1) :
       t[i] \in {"o", "O"} /\ t[i + 1] \in {"k", "K"}

\* Something went wrong while the operation ran: the completion call
\* raised, the reply could not be read, or its text could not be parsed.
OperationFailed ==
    \/ cc = "raised"
    \/ EndedOnResponseError

\* C17: test_connection always returns, True or False, on both providers;
\* True exactly when a reply was obtained, its text could be read, and the
\* text holds "OK" in any mix of cases; and every other operation that
\* fails raises.
C17_TestConnectionNeverRaises ==
    ppc = "done" =>
       /\ op = "test_connection" =>
             /\ opResult.kind = "returned"
             /\ opResult.value \in {"True", "False"}
             /\ opResult.value = "True" <=>
                   /\ cc = "returned"
                   /\ response.wellFormed
                   /\ HoldsOKAnyCase(response.text)
       /\ (op # "test_connection" /\ OperationFailed) =>
             opResult.kind = "raised"

C17_Witness ==
    /\ ppc = "done"
    /\ op = "test_connection"
    /\ cc = "raised"
    /\ max_retries = 3
    /\ calls = 3
    /\ opResult = [kind |-> "returned", value |-> "False"]

-----------------------------------------------------------------------------
(* Properties of the text and link utilities *)

\* The links of a list that the filter keeps: on the site's domain and with
\* a keyword in the path.
Relevant(l) == l.sameDomain /\ l.keyword

\* C15: for a link list of any length, the candidate list given to the
\* provider's link selection has at most 20 entries, and is the first 20
\* (or all, if fewer) of the links the filter keeps, in page order.
C15_CandidateCap ==
    (fn = "LinkExtractor.extract" /\ ret.called) =>
       LET cand == ret.candidates
           kept == { i \in 1..Len(args.links) : Relevant(args.links[i]) }
       IN
       /\ Len(cand) <= 20
       /\ Len(cand) = IF Cardinality(kept) < 20 THEN Cardinality(kept) ELSE 20
       /\ \A i \in 1..Len(cand) :
             /\ cand[i] = args.links[cand[i].id]
             /\ cand[i].id \in kept
             /\ Cardinality({ k \in kept : k < cand[i].id }) = i - 1

C15_Witness ==
    /\ fn = "LinkExtractor.extract"
    /\ ret.called
    /\ Cardinality({ i \in 1..Len(args.links) : Relevant(args.links[i]) }) > 20
    /\ Len(ret.candidates) = 20
    /\ ret.candidates[20].id = 20

\* The 0-based place of the last sentence terminator among the first m
\* characters of c, -1 if there is none.
LastTerminator(c, m) ==
    LET at == { i \in 1..m : i <= Len(c) /\ c[i] \in {".", "!", "?"} } IN
    IF at = {} THEN -1 ELSE SetMax(at) - 1

Truncating == fn = "truncate_content" /\ Len(args.content) > args.max_length

C19_HardCutAndLengthBound ==
    fn = "truncate_content" =>
       LET p == LastTerminator(args.content, args.max_length) IN
       /\ (Truncating /\ 5 * p < 4 * args.max_length) =>
             /\ ret = SubSeq(args.content, 1, args.max_length)
                         \o <<".", ".", ".">>
             /\ Len(ret) = args.max_length + 3
       /\ Len(args.content) <= args.max_length => ret = args.content
       /\ Len(ret) <= args.max_length + 3

C19_Witness ==
    /\ Truncating
    /\ args.max_length = 10
    /\ LastTerminator(args.content, 10) = 7
    /\ Len(ret) = 13
    /\ SubSeq(ret, 11, 13) = <<".", ".", ".">>

\* The section of the k-th secondary page: its label, then its content.
SecondarySection(url) ==
    <<"\n", "\n">> \o determine_page_type(url) \o <<":", "\n">>
       \o get_formatted_content(PageAt(url))

\* The sections of the secondary pages from the k-th on, in order.
SectionsFrom(a, k) ==
    LET R[i \in 1..(Len(a) + 1)] ==
           IF i > Len(a) THEN <<>> ELSE SecondarySection(a[i]) \o R[i + 1]
    IN R[k]

\* C20: the document combine assembles, before truncation, is
\* "Landing page:\n" and the main page's formatted content, then for each
\* secondary page in the map's insertion order "\n\n<Category>:\n" and that
\* page's formatted content; the page of a URL with "careers" in it (and no
\* "about") comes right after the label "Careers page:".
C20_CombineLayout ==
    fn = "ContentCombiner.combine" =>
       LET a == args.additional_content
           head == LandingLabel \o get_formatted_content(args.main_content)
       IN
       /\ ret.combined = head \o SectionsFrom(a, 1)
       /\ IsPrefix(LandingLabel, ret.combined)
       /\ \A k \in 1..Len(a) :
             LET before == head \o SubSeq(SectionsFrom(a, 1), 1,
                              Len(SectionsFrom(a, 1)) - Len(SectionsFrom(a, k)))
                 careers == <<"\n", "\n">> \o CareersPage \o <<":", "\n">>
                               \o get_formatted_content(PageAt(a[k]))
             IN
             (Contains(Lower(a[k]), <<"c", "a", "r", "e", "e", "r", "s">>)
                /\ ~Contains(Lower(a[k]), KwAbout)) =>
                IsPrefix(before \o careers, ret.combined)

C20_Witness ==
    /\ fn = "ContentCombiner.combine"
    /\ Len(args.additional_content) = 2
    /\ args.additional_content[2] = <<"/", "C", "a", "r", "e", "e", "r", "s">>
    /\ args.additional_content[1] = <<"/", "t", "e", "a", "m">>
    /\ Len(ret.combined) > 100

\* A link passes the two tests of the filter: its network location contains
\* the base domain, its path contains a keyword whatever the case.
PassesBothTests(l, d) ==
    /\ l.parses
    /\ Contains(l.netloc, d)
    /\ \E k \in RelevantKeywords : Contains(Lower(l.path), k)

\* C21: filter_relevant_links returns exactly the links whose network
\* location contains the base domain as a substring and whose path contains
\* one of the fixed keywords case-insensitively, in input order; a link
\* failing either test never appears; for [acme.com/about, acme.com/blog,
\* other.com/about] and domain acme.com the result is [acme.com/about].
C21_LinkFilter ==
    fn = "filter_relevant_links" =>
       LET links == args.links
           d     == args.base_domain
           kept  == { i \in 1..Len(links) : PassesBothTests(links[i], d) }
       IN
       /\ Len(ret) = Cardinality(kept)
       /\ \A i \in kept :
             ret[Cardinality({ k \in kept : k <= i })] = links[i].url
       /\ ( /\ d = <<"a", "c", "m", "e", ".", "c", "o", "m">>
            /\ Len(links) = 3
            /\ links[1].path = <<"/", "a", "b", "o", "u", "t">>
            /\ links[1].netloc = d
            /\ links[2].path = <<"/", "b", "l", "o", "g">>
            /\ links[2].netloc = d
            /\ links[3].path = <<"/", "a", "b", "o", "u", "t">>
            /\ links[3].netloc = <<"o", "t", "h", "e", "r", ".", "c", "o", "m">> )
          => ret = <<links[1].url>>

C21_Witness ==
    /\ fn = "filter_relevant_links"
    /\ args.base_domain = <<"a", "c", "m", "e", ".", "c", "o", "m">>
    /\ Len(args.links) = 3
    /\ args.links[1].path = <<"/", "x">>
    /\ args.links[2].path = <<"/", "T", "e", "a", "m">>
    /\ args.links[3].netloc = <<"x", "a", "c", "m", "e", ".", "c", "o", "m">>
    /\ ret = <<args.links[2].url, args.links[3].url>>

-----------------------------------------------------------------------------
(* Properties of the scraper and of the request's documents *)

\* C22: scrape_website returns a page-content record whenever the fetch
\* succeeded within the retry budget and the page parses, and returns None
\* only when the fetch failed on every attempt (or parsing failed; the pages
\* here all parse).
C22_ScraperBoundaryResult ==
    (pc = "scraped" /\ mode # "none") =>
       /\ http_response = "response" =>
             /\ main_content # None
             /\ main_content.links = site
       /\ main_content = None =>
             /\ http_response = "None"
             /\ fetches = scraper_max_retries

\* C23: the assembled document of a request is truncated with that
\* request's max_content_length: whatever the pages, its length is at most
\* the request's max_content_length plus the three characters of the
\* ellipsis marker.
C23_RequestLengthBudget ==
    fn = "_combine_website_content" =>
       Len(ret) <= args.max_content_length + Len(EllipsisMarker)

\* The categories in priority order, each with the substrings that select
\* it.
CategoryOrder ==
    << [label |-> AboutPage, any |-> {KwAbout}],
       [label |-> CareersPage, any |-> {KwCareer, KwJob}],
       [label |-> TeamPage, any |-> {KwTeam}],
       [label |-> ProductsServicesPage, any |-> {KwProduct, KwService}],
       [label |-> ContactPage, any |-> {KwContact}] >>

\* The categories a URL matches, whatever the case of its letters.
Matching(url) ==
    { k \in DOMAIN CategoryOrder :
        \E w \in CategoryOrder[k].any : Contains(Lower(url), w) }

\* C24: the label of a secondary page is that of the first category its URL
\* matches, case-insensitively, in the order about, careers/job, team,
\* product/service, contact, and "Company page" when it matches none; a URL
\* with both "about" and "careers" is labelled "About page"; every URL gets
\* one of the six labels.
C24_CategoryPriority ==
    fn = "_determine_page_type" =>
       LET m == Matching(args.url) IN
       /\ m # {} => ret = CategoryOrder[SetMin(m)].label
       /\ m = {} => ret = CompanyPage
       /\ {1, 2} \subseteq m => ret = AboutPage
       /\ ret \in { CategoryOrder[k].label : k \in DOMAIN CategoryOrder }
                     \cup {CompanyPage}

C24_Witness ==
    /\ fn = "_determine_page_type"
    /\ args.url = <<"/", "c", "a", "r", "e", "e", "r", "s", "/", "a", "b",
                    "o", "u", "t", "-", "u", "s">>
    /\ Matching(args.url) = {1, 2}
    /\ ret = AboutPage

-----------------------------------------------------------------------------
(* Properties of the messages a brochure operation sends *)

\* The brochure operation has built its messages.
BrochureMessagesBuilt ==
    /\ op \in {"generate_brochure", "stream_brochure_generation"}
    /\ messages # NoMessages

\* The messages of a list that are not system messages.
NonSystem(list) == SelectSeq(list, LAMBDA m : m.role # "system")

\* C25: the list generate_brochure and stream_brochure_generation send ends
\* with the one user message that carries the assembled content; with
\* use_few_shot the fixed example pair, user then assistant, comes before
\* it and nothing else but the system prompt does; without use_few_shot no
\* example message is in the list.
C25_FewShotMessages ==
    BrochureMessagesBuilt =>
       LET list   == messages.list
           turns  == NonSystem(list)
           prompt == [role |-> "user",
                      content |-> [company_name |-> opArgs.company_name,
                                   website_content |-> opArgs.content,
                                   suffix |-> IF opArgs.language = "en"
                                                 THEN ""
                                                 ELSE "IMPORTANT: language instruction"]]
       IN
       /\ list # <<>>
       /\ list[Len(list)] = prompt
       /\ Cardinality({ i \in 1..Len(list) : list[i] = prompt }) = 1
       /\ \A i \in 1..Len(list) : list[i].role = "system" => i = 1
       /\ opArgs.use_few_shot =>
             turns = << [role |-> "user",
                         content |-> [fixed |-> "TechCorp pages"]],
                        [role |-> "assistant",
                         content |-> [fixed |-> "TechCorp brochure"]],
                        prompt >>
       /\ ~opArgs.use_few_shot => turns = <<prompt>>

C25_Witness ==
    /\ BrochureMessagesBuilt
    /\ op = "stream_brochure_generation"
    /\ provider = "Claude"
    /\ opArgs.use_few_shot
    /\ Len(messages.list) = 3
    /\ calls = 1
    /\ handed # <<>>

-----------------------------------------------------------------------------
(* Properties of the two request paths taken together *)

\* A request is under way and its inputs passed validation.
ValidRequestUnderWay ==
    /\ Started
    /\ pc = "scraped"

\* C26: for the same request and the same scraped pages, the company name,
\* the assembled content, the language and the few-shot flag that
\* stream_brochure_generation passes to the provider are those that
\* generate_brochure passes.
C26_SamePromptBothPaths ==
    ValidRequestUnderWay =>
       \A content \in {"Landing page"} :
          GenerationCall("stream", content) = GenerationCall("sync", content)

\* C27: no step of generate_brochure or stream_brochure_generation changes a
\* field of the options object the caller supplied, so that when the request
\* finishes, with a result or an exception, language, use_few_shot,
\* stream_output, save_metadata and max_content_length are as they were
\* before the call.
C27_OptionsNotMutated ==
    [][(options.given /\ pc \notin {"idle", "done"}) => options' = options]_vars

-----------------------------------------------------------------------------
(* Properties of the orchestrator's construction *)

\* Construction ended after a connection test that returned False.
ConstructionTestFailed ==
    /\ construction.phase \in {"raised", "constructed"}
    /\ opResult = [kind |-> "returned", value |-> "False"]

\* C28: on either provider, when the connection test returns False the
\* construction fails with a ConnectionError that names the provider, and
\* no orchestrator is produced.
C28_FailedConnectionTest ==
    ConstructionTestFailed =>
       /\ construction.phase = "raised"
       /\ construction.exc = "ConnectionError"
       /\ construction.names = provider

-----------------------------------------------------------------------------
(* Properties of a sequence of requests on one BrochureGenerator *)

\* C29: over the requests issued on one BrochureGenerator, no session.get
\* is made on a scraper whose close() has been called: the session closed
\* at the end of one request is not the one a later request fetches with.
C29_NoFetchAfterClose ==
    [][fetches' > fetches => ~session_closed]_vars

-----------------------------------------------------------------------------
(* Properties of a failure in the middle of a stream *)

\* The stream was created and then raised while it was being read.
MidStreamFailed ==
    /\ op = "stream_brochure_generation"
    /\ cc = "returned"
    /\ opResult.kind = "raised"

\* What stream_brochure_generation of the orchestrator does from its loop
\* on when the provider's generator hands over the fragments fr and then
\* raises, for a main page mc.
HandlerOnMidStreamFailure(fr, mc, sel, sv, md) ==
    RestOfPipelineIn("stream", [DefaultOptions EXCEPT !.stream_output = TRUE],
                     mc, sel, "raised", fr, sv, md)

\* C30: the retry loop covers the creation of the stream only.  When the
\* stream raises after k fragments were handed over, the error leaves the
\* generator, the stream has been created once and is not created again,
\* the k fragments stay as handed over and none is handed over again; the
\* orchestrator's streaming handler, given these k fragments and the error,
\* has yielded exactly them, saves no file, yields no GenerationResult,
\* re-raises, and closes the scraper in its finally clause.
C30_MidStreamFailure ==
    /\ [](MidStreamFailed =>
            /\ sgen = "finished"
            /\ ppc = "done"
            /\ opResult.value = "connectivity"
            /\ calls = Len(failures) + 1
            /\ response.id = calls
            /\ Len(handed) <= chunksRead
            /\ pending = <<>>
            /\ \A mc \in Pages, sel \in {"empty", "some"}, sv \in BOOLEAN,
                  md \in BOOLEAN :
                  LET fr == [i \in 1..Len(handed) |-> Fragment(handed[i])]
                      r  == HandlerOnMidStreamFailure(fr, mc, sel, sv, md)
                  IN r.err = "generation raised" =>
                        /\ r.yielded = fr
                        /\ ~r.saved
                        /\ r.result = NoGenerationResult
                        /\ "Persist" \notin Range(r.stages)
                        /\ ExceptClauseReraises
                        /\ FinallyCloses)
    /\ [][(op = "stream_brochure_generation" /\ cc = "returned"
             /\ opResult'.kind = "raised") =>
             /\ calls' = calls
             /\ trace' = trace
             /\ handed' = handed]_vars

C30_Witness ==
    /\ MidStreamFailed
    /\ Len(handed) = 1
    /\ chunksRead = 1
    /\ stream # <<>>
    /\ Len(failures) = 1
    /\ calls = 2

====
